---------------------------- MODULE Spec2Model ----------------------------
(***************************************************************************)
(* A model of the Styx (9P2000) server of python-styx: the serve loop and  *)
(* the handlers of StyxServer (styxserver.py), the message decoder's type  *)
(* lookup (styx.py) and the two stores a StyxServer is started with,       *)
(* DictStore (dictserver.py) and FileStore (localfileserver.py).           *)
(*                                                                         *)
(* A path string is modelled by the sequence of its "/"-separated pieces,  *)
(* so "" is <<"">>, "/" is <<"", "">> and "dir/hello.txt" is               *)
(* <<"dir", "hello.txt">>.  Python's None is modelled by None ("None")     *)
(* for objects, NoneQid for a qid and NoneFid for a fid.                   *)
(***************************************************************************)
EXTENDS Integers, Sequences, FiniteSets, TLC

(***************************************************************************)
(* Bounds of the model.                                                    *)
(***************************************************************************)
MaxFid == 1
MaxTag == 1
MaxConn == 2
MaxDepth == 2     \* objects are created down to this depth
MaxInbox == 3     \* replies waiting in the client's socket

Fids == 0 .. MaxFid
Tags == 0 .. MaxTag
Conns == 1 .. MaxConn

(***************************************************************************)
(* Program constants.                                                      *)
(***************************************************************************)
\* A 32-bit field that may exceed 2^31 - 1 is the pair <<high, low>> of its
\* 16-bit halves: 0xffffffff, 0x80000000 and 0x20000000.
NOFID == <<65535, 65535>>
DMDIR == <<32768, 0>>
DMEXCL == <<8192, 0>>
MSIZE == 16384
MAXWELEM == 16
MAX_MSG_SIZE == 0

Tversion_code == 100
Rversion_code == 101
Tattach_code == 104
Rattach_code == 105
Rerror_code == 107
Twalk_code == 110
Rwalk_code == 111
Topen_code == 112
Ropen_code == 113
Tcreate_code == 114
Rcreate_code == 115
Tread_code == 116
Rread_code == 117
Twrite_code == 118
Rwrite_code == 119
Tclunk_code == 120
Rclunk_code == 121
Tremove_code == 122
Rremove_code == 123
Tstat_code == 124
Rstat_code == 125
\* StyxServer.handlers has keys styx.Tflush.code and styx.Twstat.code, but
\* styx.py defines neither class (their MessageTypes entries are commented
\* out): the codes are those of the 9P2000 message inventory.
Tflush_code == 108
Rflush_code == 109
Twstat_code == 126

None == "None"
NoneQid == <<>>
NoneFid == -1

(***************************************************************************)
(* Inputs: the names a request may carry, open modes, permissions.         *)
(***************************************************************************)
Names == {"dir", "hello.txt"}
CreateNames == {"hello.txt", ".."}
Modes == {0, 1}
CreateModes == {1}
Perms == {<<0, 420>>, <<32768, 493>>}
Afids == {NOFID, <<0, 0>>}
Msizes == {8192, 16384}
Versions == {"9P2000", "9P2000.u"}
DataLens == {2}
ReadOffsets == {0, 66}
ReadCounts == {10, 8192}

Wnames ==
    {<<>>, <<"dir">>, <<"hello.txt">>, <<"..">>, <<"dir", "hello.txt">>,
     <<"dir", "dir">>, <<"hello.txt", "dir">>}

VARIABLES
    store_class,  \* "DictStore" or "FileStore": the store the server was given
    tree,         \* the dictionary / directory served: node key -> "dir" | "file"
    qids,         \* store.qids: fid -> qid
    paths,        \* store.paths: fid -> path
    opened,       \* store.opened: fid -> mode
    root_fid,     \* store.root_fid
    clients,      \* keys of StyxServer.clients
    client,       \* the client of the connection accepted last
    pc,           \* where serve() is: "accept" (in s.accept), "loop" (at the
                  \* test of the inner while), "decode" (in styx.decode),
                  \* "recv" (in the loop of SocketReceiver.recv after the
                  \* peer closed the connection) or "raised" (left by an
                  \* exception)
    message,      \* at "loop": the message decoded in the turn just made
    reply,        \* at "loop": the reply encoded for it
    session_fids, \* history: the fids bound by a Tattach or Twalk of the
                  \* connection being served and not released since
    self,         \* the Client object: msize, root_fid, current_fid, replies
                  \* and fids
    sock,         \* the replies the client's socket still has to deliver
    sent,         \* history: the messages the client operation made last
                  \* has sent, in order
    result,       \* history: how the client operation made last ended
    codec         \* the message a peer encoded, its bytes and what
                  \* styx.decode made of them

server_vars == <<store_class, tree, qids, paths, opened, root_fid,
                 clients, client, pc, message, reply, session_fids>>

client_vars == <<self, sock, sent, result>>

vars == <<server_vars, client_vars, codec>>

NoMessage == [code |-> 0]
NoReply == [code |-> 0]

(***************************************************************************)
(* Bitwise and of two naturals (Python's & on non-negative integers).      *)
(***************************************************************************)
RECURSIVE BitAnd(_, _)
BitAnd(a, b) ==
    IF a = 0 \/ b = 0 THEN 0
    ELSE (IF a % 2 = 1 /\ b % 2 = 1 THEN 1 ELSE 0) + 2 * BitAnd(a \div 2, b \div 2)

U32(n) == <<n \div 65536, n % 65536>>
And32(a, b) == <<BitAnd(a[1], b[1]), BitAnd(a[2], b[2])>>
Zero32 == <<0, 0>>

(***************************************************************************)
(* Dictionaries.                                                           *)
(***************************************************************************)
Put(f, k, v) == [x \in DOMAIN f \cup {k} |-> IF x = k THEN v ELSE f[x]]
Del(f, k) == [x \in DOMAIN f \ {k} |-> f[x]]
EmptyDict == [x \in {} |-> 0]

(***************************************************************************)
(* Strings as sequences of pieces.                                         *)
(***************************************************************************)
RECURSIVE lstrip(_)
lstrip(path) ==
    IF Len(path) > 1 /\ Head(path) = "" THEN lstrip(Tail(path)) ELSE path

join(pieces) == IF pieces = <<>> THEN <<"">> ELSE pieces

split(path) == path

Front(s) == SubSeq(s, 1, Len(s) - 1)

\* The node a host path names: os.path.join(self.dir, path), empty pieces
\* (repeated or trailing separators) dropped.
real_path(path) == SelectSeq(path, LAMBDA e : e # "")

Children(t, key) ==
    {k \in DOMAIN t : Len(k) = Len(key) + 1 /\ SubSeq(k, 1, Len(key)) = key}


(***************************************************************************)
(* The codec (styx.py).  On the wire a message is a sequence of bytes.  A  *)
(* 16-bit value is a natural number, a 32-bit value the pair <<high, low>> *)
(* of its 16-bit halves, a 64-bit value the four 16-bit words from the     *)
(* highest down, a string the sequence of its code points (below 65536)    *)
(* and raw data a sequence of bytes.  A qid is <<type, version, path>>.    *)
(***************************************************************************)
\* struct.pack("<B" / "<H" / "<I" / "<Q", value)
pack_B(value) == <<value>>
pack_H(value) == <<(value % 256), (value \div 256)>>
pack_I(value) == pack_H(value[2]) \o pack_H(value[1])
pack_Q(value) ==
    pack_H(value[4]) \o pack_H(value[3]) \o pack_H(value[2]) \o pack_H(value[1])

\* struct.unpack of exactly 1, 2, 4 and 8 bytes
unpack_H(data) == data[1] + 256 * data[2]
unpack_I(data) == <<unpack_H(SubSeq(data, 3, 4)), unpack_H(SubSeq(data, 1, 2))>>
unpack_Q(data) ==
    <<unpack_H(SubSeq(data, 7, 8)), unpack_H(SubSeq(data, 5, 6)),
      unpack_H(SubSeq(data, 3, 4)), unpack_H(SubSeq(data, 1, 2))>>

\* The number a 32-bit value stands for (used for counts, which are small).
Int32(value) == value[1] * 65536 + value[2]

\* string.encode("utf8")
utf8_char(c) ==
    IF c < 128 THEN <<c>>
    ELSE IF c < 2048 THEN <<192 + (c \div 64), 128 + (c % 64)>>
    ELSE <<224 + (c \div 4096), 128 + ((c \div 64) % 64), 128 + (c % 64)>>

RECURSIVE utf8_encode(_)
utf8_encode(string) ==
    IF string = <<>> THEN <<>>
    ELSE utf8_char(Head(string)) \o utf8_encode(Tail(string))

\* data.decode("utf8"): the length of the sequence a lead byte starts (0 if
\* the byte starts none), whether the bytes are well formed, and the string.
utf8_len(b) ==
    IF b < 128 THEN 1
    ELSE IF b >= 194 /\ b < 224 THEN 2
    ELSE IF b >= 224 /\ b < 240 THEN 3
    ELSE 0

utf8_point(data) ==
    CASE utf8_len(data[1]) = 1 -> data[1]
      [] utf8_len(data[1]) = 2 -> (data[1] - 192) * 64 + (data[2] - 128)
      [] OTHER -> (data[1] - 224) * 4096 + (data[2] - 128) * 64 + (data[3] - 128)

RECURSIVE utf8_valid(_)
utf8_valid(data) ==
    IF data = <<>> THEN TRUE
    ELSE /\ utf8_len(data[1]) > 0
         /\ utf8_len(data[1]) <= Len(data)
         /\ \A i \in 2 .. utf8_len(data[1]) : data[i] >= 128 /\ data[i] < 192
         /\ utf8_len(data[1]) = 3 => utf8_point(data) >= 2048
         /\ utf8_valid(SubSeq(data, utf8_len(data[1]) + 1, Len(data)))

RECURSIVE utf8_decode(_)
utf8_decode(data) ==
    IF data = <<>> THEN <<>>
    ELSE <<utf8_point(data)>>
             \o utf8_decode(SubSeq(data, utf8_len(data[1]) + 1, Len(data)))

encode_string(string) ==
    pack_H(Len(utf8_encode(string))) \o utf8_encode(string)

encode_data(data) == pack_H(Len(data)) \o data

encode_qid(qid) == pack_B(qid[1]) \o pack_I(qid[2]) \o pack_Q(qid[3])

\* A stat whose size field counts itself as well.
Stat_encode_counted(stat) ==
    LET data == pack_H(stat.type) \o pack_I(stat.dev) \o encode_qid(stat.qid)
                    \o pack_I(stat.mode) \o pack_I(stat.atime)
                    \o pack_I(stat.mtime) \o pack_Q(stat.length)
                    \o encode_string(stat.name) \o encode_string(stat.uid)
                    \o encode_string(stat.gid) \o encode_string(stat.muid)
    IN  pack_H(Len(data) + 2) \o data

\* Stat.encode
Stat_encode(stat) ==
    encode_data(pack_H(stat.type) \o pack_I(stat.dev) \o encode_qid(stat.qid)
                    \o pack_I(stat.mode) \o pack_I(stat.atime)
                    \o pack_I(stat.mtime) \o pack_Q(stat.length)
                    \o encode_string(stat.name) \o encode_string(stat.uid)
                    \o encode_string(stat.gid) \o encode_string(stat.muid))

(***************************************************************************)
(* The store: DictStore (dictserver.py) and FileStore (localfileserver.py).*)
(* A store value st is the record of the store's fields and of the tree it *)
(* serves.  A call returns [exc, st, value]: exc is "none" or the name of  *)
(* the exception raised, st the store after the call.                      *)
(***************************************************************************)
Store == [tree |-> tree, qids |-> qids, paths |-> paths, opened |-> opened,
          root_fid |-> root_fid]

Return(st, v) == [value |-> v, st |-> st, exc |-> "none"]
Raise(e, st) == [value |-> None, st |-> st, exc |-> e]

OSErrorString == "OSError"
DictRemoveError == "Cannot remove dictionary entries."

\* DictStore.traverse: the object at path, None (found = FALSE) when a key
\* is missing; indexing a string value with a name raises TypeError.
RECURSIVE traverse_from(_, _, _)
traverse_from(t, key, elements) ==
    IF elements = <<>> THEN [key |-> key, exc |-> "none", found |-> TRUE]
    ELSE IF t[key] = "file" THEN [key |-> <<>>, exc |-> "TypeError",
                                  found |-> FALSE]
    ELSE LET k == Append(key, Head(elements))
         IN  IF k \notin DOMAIN t
             THEN [key |-> <<>>, exc |-> "none", found |-> FALSE]
             ELSE traverse_from(t, k, Tail(elements))

traverse(t, path) ==
    IF path = <<"">> THEN [key |-> <<>>, exc |-> "none", found |-> TRUE]
    ELSE traverse_from(t, <<>>, split(path))

make_qid(st, path0) ==
    LET path == lstrip(path0)
    IN  IF store_class = "DictStore"
        THEN LET obj == traverse(st.tree, path)
             IN  IF obj.exc # "none" THEN Raise(obj.exc, st)
                 ELSE IF ~obj.found THEN Return(st, NoneQid)
                 ELSE Return(st, <<IF st.tree[obj.key] = "dir" THEN 128 ELSE 0,
                                   0, obj.key>>)
        ELSE LET rp == real_path(path)
             IN  IF rp \notin DOMAIN st.tree THEN Return(st, NoneQid)
                 ELSE Return(st, <<IF st.tree[rp] = "dir" THEN 128 ELSE 0, 0, rp>>)

\* set_qid_path that forgets the open modes.
set_qid_path_resets(st, fid, qid, path0) ==
    LET path == lstrip(path0)
    IN  [st EXCEPT !.qids = Put(st.qids, fid, qid),
                   !.paths = Put(st.paths, fid, path),
                   !.opened = EmptyDict]

set_qid_path(st, fid, qid, path0) ==
    LET path == lstrip(path0)
    IN  [st EXCEPT !.qids = Put(st.qids, fid, qid),
                   !.paths = Put(st.paths, fid, path)]

get_root_qid(st, fid, afid, uname, aname) ==
    LET q == make_qid(st, <<"", "">>)
    IN  IF q.exc # "none" THEN q
        ELSE LET st1 == set_qid_path(q.st, fid, q.value, <<"", "">>)
             IN  Return([st1 EXCEPT !.root_fid = fid], q.value)

get_qid_path(st, fid) ==
    IF fid \notin DOMAIN st.qids \/ fid \notin DOMAIN st.paths
    THEN Raise("KeyError", st)
    ELSE Return(st, <<st.qids[fid], st.paths[fid]>>)

\* free_qid_path that leaves the open mode of the fid in place.
free_qid_path_open(st, fid) ==
    IF fid \notin DOMAIN st.qids THEN Raise("KeyError", st)
    ELSE IF fid \notin DOMAIN st.paths
    THEN Raise("KeyError", [st EXCEPT !.qids = Del(st.qids, fid)])
    ELSE Return([st EXCEPT !.qids = Del(st.qids, fid),
                           !.paths = Del(st.paths, fid)], None)

free_qid_path(st, fid) ==
    IF fid \notin DOMAIN st.qids THEN Raise("KeyError", st)
    ELSE IF fid \notin DOMAIN st.paths
    THEN Raise("KeyError", [st EXCEPT !.qids = Del(st.qids, fid)])
    ELSE Return([st EXCEPT !.qids = Del(st.qids, fid),
                           !.paths = Del(st.paths, fid),
                           !.opened = Del(st.opened, fid)], None)

\* _stat: None for a missing path, else the Stat (its qid, name and kind).
store__stat(st, qid, path0) ==
    LET path == lstrip(path0)
        name == path[Len(path)]
    IN  IF store_class = "DictStore"
        THEN LET obj == traverse(st.tree, path)
             IN  IF obj.exc # "none" THEN Raise(obj.exc, st)
                 ELSE IF ~obj.found THEN Return(st, [none |-> TRUE])
                 ELSE Return(st, [qid |-> qid, name |-> name, none |-> FALSE,
                                  dir |-> st.tree[obj.key] = "dir"])
        ELSE LET rp == real_path(path)
             IN  IF rp \notin DOMAIN st.tree THEN Return(st, [none |-> TRUE])
                 ELSE Return(st, [qid |-> qid, name |-> name, none |-> FALSE,
                                  dir |-> st.tree[rp] = "dir"])

store_stat(st, fid) ==
    IF fid \notin DOMAIN st.qids \/ fid \notin DOMAIN st.paths
    THEN Raise("KeyError", st)
    ELSE store__stat(st, st.qids[fid], st.paths[fid])

\* create that does not look whether the fid is open.
store_create_open(st, fid, name, perm, env_ok) ==
    IF store_class = "DictStore" THEN Return(st,
        [qid |-> NoneQid, ok |-> FALSE])
    ELSE IF name \in {".", ".."} THEN Return(st,
        [qid |-> NoneQid, ok |-> FALSE])
    ELSE IF fid \notin DOMAIN st.paths THEN Raise("KeyError", st)
    ELSE LET path == st.paths[fid]
             rp == real_path(path)
             new_rp == real_path(Append(path, name))
         IN  IF ~(rp \in DOMAIN st.tree /\ st.tree[rp] = "dir")
             THEN Return(st, [qid |-> NoneQid, ok |-> FALSE])
             ELSE IF new_rp \in DOMAIN st.tree
             THEN Return(st, [qid |-> NoneQid, ok |-> FALSE])
             ELSE IF ~env_ok THEN Return(st, [qid |-> NoneQid, ok |-> FALSE])
             ELSE LET kind == IF And32(perm, DMDIR) # Zero32 THEN "dir" ELSE "file"
                      st1 == [st EXCEPT !.tree = Put(st.tree, new_rp, kind)]
                      q == make_qid(st1, Append(path, name))
                  IN  Return(set_qid_path(st1, fid, q.value, Append(path, name)),
                             [qid |-> q.value, ok |-> TRUE])

\* create: False (value.ok = FALSE) or the qid of the new object.  env_ok
\* tells whether the host's mkdir/mknod succeeds.
store_create(st, fid, name, perm, env_ok) ==
    IF store_class = "DictStore" THEN Return(st,
        [qid |-> NoneQid, ok |-> FALSE])
    ELSE IF name \in {".", ".."} THEN Return(st,
        [qid |-> NoneQid, ok |-> FALSE])
    ELSE IF fid \in DOMAIN st.opened THEN Return(st,
        [qid |-> NoneQid, ok |-> FALSE])
    ELSE IF fid \notin DOMAIN st.paths THEN Raise("KeyError", st)
    ELSE LET path == st.paths[fid]
             rp == real_path(path)
             new_rp == real_path(Append(path, name))
         IN  IF ~(rp \in DOMAIN st.tree /\ st.tree[rp] = "dir")
             THEN Return(st, [qid |-> NoneQid, ok |-> FALSE])
             ELSE IF new_rp \in DOMAIN st.tree
             THEN Return(st, [qid |-> NoneQid, ok |-> FALSE])
             ELSE IF ~env_ok THEN Return(st, [qid |-> NoneQid, ok |-> FALSE])
             ELSE LET kind == IF And32(perm, DMDIR) # Zero32 THEN "dir" ELSE "file"
                      st1 == [st EXCEPT !.tree = Put(st.tree, new_rp, kind)]
                      q == make_qid(st1, Append(path, name))
                  IN  Return(set_qid_path(st1, fid, q.value, Append(path, name)),
                             [qid |-> q.value, ok |-> TRUE])

\* open that records every fid as open for reading.
store_open_read(st, fid, mode) ==
    Return([st EXCEPT !.opened = Put(st.opened, fid, 0)], TRUE)

store_open(st, fid, mode) ==
    IF fid \in DOMAIN st.opened
    THEN LET st1 == [st EXCEPT !.opened = Put(st.opened, fid, mode)]
         IN  IF And32(U32(mode), DMEXCL) # Zero32 THEN Return(st1, FALSE)
             ELSE Return(st1, TRUE)
    ELSE Return([st EXCEPT !.opened = Put(st.opened, fid, mode)], TRUE)

\* The unicode string of a name, as its code points.
unicode(name) ==
    CASE name = "dir" -> <<100, 105, 114>>
      [] name = "hello.txt" -> <<104, 101, 108, 108, 111, 46, 116, 120, 116>>
      [] name = "u263a" -> <<9786>>
      [] name = "d" -> <<100>>
      [] name = ".." -> <<46, 46>>
      [] name = "/" -> <<47>>
      [] name = "inferno" -> <<105, 110, 102, 101, 114, 110, 111>>
      [] name = "styxfs" -> <<115, 116, 121, 120, 102, 115>>
      [] OTHER -> <<>>

\* The order of unicode strings that list.sort uses: by code point, a proper
\* prefix first.
RECURSIVE unicode_less(_, _)
unicode_less(a, b) ==
    IF b = <<>> THEN FALSE
    ELSE IF a = <<>> THEN TRUE
    ELSE IF a[1] # b[1] THEN a[1] < b[1]
    ELSE unicode_less(Tail(a), Tail(b))

\* A listing with the greatest name first.
RECURSIVE files_sort_greatest(_)
files_sort_greatest(files) ==
    IF files = {} THEN <<>>
    ELSE LET greatest == CHOOSE f \in files : \A g \in files \ {f} :
                             unicode_less(unicode(g), unicode(f))
         IN  <<greatest>> \o files_sort_greatest(files \ {greatest})

\* files.sort() of the names of a directory: the least name first.
RECURSIVE files_sort(_)
files_sort(files) ==
    IF files = {} THEN <<>>
    ELSE LET least == CHOOSE f \in files : \A g \in files \ {f} :
                          unicode_less(unicode(f), unicode(g))
         IN  <<least>> \o files_sort(files \ {least})

\* The styx.Stat that _stat makes of the object at key.  What the host
\* decides is fixed: the id of the object or its inode (here made of the
\* depth and the length of the name), the clock, the permission bits and
\* the size of a file (those of the dictionary served, 0 in a directory
\* that Tcreate fills).
styx_Stat(s, key) ==
    [qid |-> <<s.qid[1], <<0, 0>>,
               <<0, 0, Len(key), Len(unicode(key[Len(key)]))>> >>,
     type |-> 0, dev |-> <<0, 0>>,
     mode |-> IF store_class = "DictStore"
              THEN (IF s.dir THEN <<32768, 365>> ELSE <<0, 292>>)
              ELSE (IF s.dir THEN <<32768, 493>> ELSE <<0, 420>>),
     atime |-> <<25000, 0>>, mtime |-> <<25000, 0>>,
     length |-> <<0, 0, 0,
                  IF s.dir \/ store_class = "FileStore" THEN 0
                  ELSE IF s.name = "hello.txt" THEN 13 ELSE 10>>,
     name |-> unicode(s.name),
     uid |-> unicode(IF store_class = "DictStore" THEN "inferno"
                     ELSE "styxfs"),
     gid |-> unicode(IF store_class = "DictStore" THEN "inferno"
                     ELSE "styxfs"),
     muid |-> <<>>]

\* The loop of read over the sorted names of the directory at key:
\* data += self._stat(qid, path + "/" + file_name).encode()
RECURSIVE read_files(_, _, _, _)
read_files(st, path, key, files) ==
    IF files = <<>> THEN <<>>
    ELSE Stat_encode(styx_Stat(
             store__stat(st,
                         make_qid(st, Append(path, Head(files))).value,
                         Append(path, Head(files))).value,
             Append(key, Head(files))))
             \o read_files(st, path, key, Tail(files))

\* data[offset:offset + count]
data_slice(data, offset, count) ==
    SubSeq(data, offset + 1,
           IF offset + count < Len(data) THEN offset + count ELSE Len(data))

\* read of the directory at key, which path names: the stats of its files
\* in sorted order, then data[offset:offset + count].
read_dir(st, path, key, offset, count) ==
    data_slice(read_files(st, path, key,
                          files_sort({k[Len(k)] : k \in Children(st.tree, key)})),
               offset, count)

\* read of the object obj that the store found at path: None for a path
\* the dictionary does not hold, IOError for one the host does not hold.
read_at(st, path, obj, offset, count) ==
    IF obj.exc # "none" THEN Raise(obj.exc, st)
    ELSE IF ~obj.found
    THEN (IF store_class = "DictStore" THEN Return(st, [none |-> TRUE])
          ELSE Raise("IOError", st))
    ELSE IF st.tree[obj.key] = "dir"
    THEN Return(st, [string |-> read_dir(st, path, obj.key, offset, count),
                     none |-> FALSE, of |-> obj.key])
    ELSE Return(st, [none |-> FALSE, of |-> obj.key])

\* read: the bytes read from a directory; the data read from a file is
\* represented by the node it was read from.
store_read(st, fid, offset, count) ==
    IF fid \notin DOMAIN st.paths THEN Raise("KeyError", st)
    ELSE read_at(st, st.paths[fid],
                 IF store_class = "DictStore"
                 THEN traverse(st.tree, st.paths[fid])
                 ELSE [key |-> real_path(st.paths[fid]), exc |-> "none",
                       found |-> real_path(st.paths[fid]) \in DOMAIN st.tree],
                 offset, count)

store_write(st, fid, offset, datalen) ==
    IF store_class = "DictStore" THEN Return(st, -2)
    ELSE IF fid \notin DOMAIN st.paths THEN Raise("KeyError", st)
    ELSE LET rp == real_path(st.paths[fid])
         IN  IF rp \in DOMAIN st.tree /\ st.tree[rp] = "dir" THEN Return(st, -1)
             ELSE IF rp \notin DOMAIN st.tree THEN Raise("IOError", st)
             ELSE Return(st, datalen)

\* remove: True (value.ok) or the error string.  env_ok tells whether the
\* host lets the rmdir/remove succeed when the object is there and empty.
store_remove(st, fid, env_ok) ==
    IF store_class = "DictStore"
    THEN Return(st, [ok |-> FALSE, err |-> DictRemoveError])
    ELSE IF fid \notin DOMAIN st.paths THEN Raise("KeyError", st)
    ELSE LET rp == real_path(st.paths[fid])
         IN  IF rp \notin DOMAIN st.tree
             THEN Return(st, [ok |-> FALSE, err |-> OSErrorString])
             ELSE IF st.tree[rp] = "dir" /\ Children(st.tree, rp) # {}
             THEN Return(st, [ok |-> FALSE, err |-> OSErrorString])
             ELSE IF ~env_ok THEN Return(st,
                 [ok |-> FALSE, err |-> OSErrorString])
             ELSE Return([st EXCEPT !.tree = Del(st.tree, rp)],
                         [ok |-> TRUE, err |-> ""])


(***************************************************************************)
(* Messages (styx.py).                                                     *)
(***************************************************************************)
Tversion(tag, msize, version) ==
    [code |-> Tversion_code, tag |-> tag, msize |-> msize, version |-> version]
Rversion(tag, msize, version) ==
    [code |-> Rversion_code, tag |-> tag, msize |-> msize, version |-> version]
Tattach(tag, fid, afid, uname, aname) ==
    [code |-> Tattach_code, fid |-> fid, afid |-> afid, uname |-> uname,
     aname |-> aname, tag |-> tag]
Rattach(tag, qid) == [code |-> Rattach_code, qid |-> qid, tag |-> tag]
Rerror(tag, ename) == [code |-> Rerror_code, tag |-> tag, ename |-> ename]
Twalk(tag, fid, newfid, wname) ==
    [code |-> Twalk_code, fid |-> fid, tag |-> tag, newfid |-> newfid,
     wname |-> wname, nwname |-> Len(wname)]
Rwalk(tag, wqid) ==
    [code |-> Rwalk_code, tag |-> tag, wqid |-> wqid, nwqid |-> Len(wqid)]
Topen(tag, fid, mode) == [code |-> Topen_code, mode |-> mode, fid |-> fid,
                          tag |-> tag]
Ropen(tag, qid, iounit) ==
    [code |-> Ropen_code, qid |-> qid, tag |-> tag, iounit |-> iounit]
Tcreate(tag, fid, name, perm, mode) ==
    [code |-> Tcreate_code, mode |-> mode, name |-> name, fid |-> fid,
     perm |-> perm, tag |-> tag]
Rcreate(tag, qid, iounit) ==
    [code |-> Rcreate_code, qid |-> qid, tag |-> tag, iounit |-> iounit]
Tread(tag, fid, offset, count) ==
    [code |-> Tread_code, fid |-> fid, offset |-> offset, count |-> count,
     tag |-> tag]
Rread(tag, data) == [code |-> Rread_code, data |-> data, tag |-> tag]
Twrite(tag, fid, offset, datalen) ==
    [code |-> Twrite_code, fid |-> fid, offset |-> offset, count |-> datalen,
     tag |-> tag]
Rwrite(tag, count) == [code |-> Rwrite_code, count |-> count, tag |-> tag]
Tclunk(tag, fid) == [code |-> Tclunk_code, fid |-> fid, tag |-> tag]
Rclunk(tag) == [code |-> Rclunk_code, tag |-> tag]
Tremove(tag, fid) == [code |-> Tremove_code, fid |-> fid, tag |-> tag]
Rremove(tag) == [code |-> Rremove_code, tag |-> tag]
Tstat(tag, fid) == [code |-> Tstat_code, fid |-> fid, tag |-> tag]
Rstat(tag, stat) == [code |-> Rstat_code, stat |-> stat, tag |-> tag]
\* styx.Rflush, which StyxServer.Tflush returns and styx.py does not define.
Rflush(tag) == [code |-> Rflush_code, tag |-> tag]

\* The type codes styx.decode finds a class for.
MessageTypes ==
    {Tversion_code, Rversion_code, Tattach_code, Rattach_code, Rerror_code,
     Twalk_code, Rwalk_code, Topen_code, Ropen_code, Tcreate_code, Rcreate_code,
     Tread_code, Rread_code, Twrite_code, Rwrite_code, Tclunk_code, Rclunk_code,
     Tremove_code, Rremove_code, Tstat_code, Rstat_code}

\* The keys of StyxServer.handlers.
handlers ==
    {Tversion_code, Tattach_code, Tstat_code, Twalk_code, Topen_code,
     Tcreate_code, Tread_code, Twrite_code, Tclunk_code, Tremove_code,
     Twstat_code, Tflush_code}

\* Whether reply.encode can pack the reply: a qid of None cannot be packed.
Encodable(r) ==
    CASE r.code \in {Rattach_code, Ropen_code, Rcreate_code} -> r.qid # NoneQid
      [] r.code = Rstat_code -> r.stat.qid # NoneQid
      [] OTHER -> TRUE

(***************************************************************************)
(* The handlers of StyxServer.  A handler returns [exc, st, clients,       *)
(* reply]: the exception it raised ("none" if it returned), the store and  *)
(* the clients dictionary after it, and the reply it returned.             *)
(***************************************************************************)
Replied(st, cl, r) == [clients |-> cl, reply |-> r, st |-> st, exc |-> "none"]
Raised(e, st, cl) == [clients |-> cl, reply |-> NoReply, st |-> st, exc |-> e]

\* Tversion answering under a fixed tag instead of the tag of the request.
StyxServer_Tversion_notag(st, cl, c, msg) ==
    Replied(st, cl, Rversion(0, msg.msize, msg.version))

StyxServer_Tversion(st, cl, c, msg) ==
    Replied(st, cl, Rversion(msg.tag, msg.msize, msg.version))

StyxServer_Tattach(st, cl, c, msg) ==
    LET q == get_root_qid(st, msg.fid, msg.afid, msg.uname, msg.aname)
    IN  IF q.exc # "none" THEN Raised(q.exc, q.st, cl)
        ELSE IF q.value = NoneQid
        THEN Replied(q.st, cl, Rerror(msg.tag, "Root not found."))
        ELSE Replied(q.st, cl, Rattach(msg.tag, q.value))

StyxServer_Tstat(st, cl, c, msg) ==
    LET s == store_stat(st, msg.fid)
    IN  IF s.exc # "none" THEN Raised(s.exc, s.st, cl)
        ELSE IF s.value.none THEN Replied(s.st, cl, Rerror(msg.tag, "Not found."))
        ELSE Replied(s.st, cl, Rstat(msg.tag, s.value))

\* Twalk binding newfid to the last qid made when a later name fails.
Twalk_fail_binds(st, cl, msg, wqid) ==
    IF Len(wqid) > 0
    THEN Replied(set_qid_path(st, msg.newfid, wqid[Len(wqid)], <<"">>), cl,
                 Rwalk(msg.tag, wqid))
    ELSE Replied(st, cl, Rerror(msg.tag, "Not found."))

\* Twalk when make_qid returns None for a name.
Twalk_fail(st, cl, msg, wqid) ==
    IF Len(wqid) > 0
    THEN Replied(st, cl, Rwalk(msg.tag, wqid))
    ELSE Replied(st, cl, Rerror(msg.tag, "Not found."))

\* The loop of Twalk over the names left to walk.
RECURSIVE Twalk_loop(_, _, _, _, _, _, _)
Twalk_loop(st, cl, msg, wname, new_path, qid, wqid) ==
    IF wname = <<>>
    THEN Replied(set_qid_path(st, msg.newfid, qid, join(new_path)), cl,
                 Rwalk(msg.tag, wqid))
    ELSE LET element == Head(wname)
             np == IF element = ".."
                   THEN (IF new_path # <<>> THEN Front(new_path) ELSE new_path)
                   ELSE Append(new_path, element)
             q == make_qid(st, join(np))
         IN  IF q.exc # "none" THEN Raised(q.exc, q.st, cl)
             ELSE IF q.value = NoneQid THEN Twalk_fail(q.st, cl, msg, wqid)
             ELSE Twalk_loop(q.st, cl, msg, Tail(wname), np, q.value,
                             Append(wqid, q.value))

\* Twalk that binds newfid only when there are names to walk.
StyxServer_Twalk_named(st, cl, c, msg) ==
    LET g == get_qid_path(st, msg.fid)
    IN  IF g.exc # "none" THEN Raised(g.exc, g.st, cl)
        ELSE IF msg.wname = <<>> THEN Replied(g.st, cl, Rwalk(msg.tag, <<>>))
        ELSE Twalk_loop(g.st, cl, msg, msg.wname, split(g.value[2]),
                        g.value[1], <<>>)

StyxServer_Twalk(st, cl, c, msg) ==
    LET g == get_qid_path(st, msg.fid)
    IN  IF g.exc # "none" THEN Raised(g.exc, g.st, cl)
        ELSE Twalk_loop(g.st, cl, msg, msg.wname, split(g.value[2]),
                        g.value[1], <<>>)

StyxServer_Topen(st, cl, c, msg) ==
    LET g == get_qid_path(st, msg.fid)
    IN  IF g.exc # "none" THEN Raised(g.exc, g.st, cl)
        ELSE LET o == store_open(g.st, msg.fid, msg.mode)
             IN  IF ~o.value
                 THEN Replied(o.st, cl, Rerror(msg.tag, "Cannot open file."))
                 ELSE Replied(o.st, cl, Ropen(msg.tag, g.value[1], MAX_MSG_SIZE))

StyxServer_Tcreate(st, cl, c, msg, env_ok) ==
    LET g == get_qid_path(st, msg.fid)
    IN  IF g.exc # "none" THEN Raised(g.exc, g.st, cl)
        ELSE LET n == store_create(g.st, msg.fid, msg.name, msg.perm, env_ok)
             IN  IF n.exc # "none" THEN Raised(n.exc, n.st, cl)
                 ELSE IF ~n.value.ok
                 THEN Replied(n.st, cl, Rerror(msg.tag, "Cannot create file."))
                 ELSE LET o == store_open(n.st, msg.fid, msg.mode)
                      IN  IF ~o.value
                          THEN Replied(o.st, cl, Rerror(msg.tag, "Cannot open file."))
                          ELSE Replied(o.st, cl,
                                       Rcreate(msg.tag, n.value.qid, MAX_MSG_SIZE))

\* Tread once store.read returned d.
Tread_read(cl, msg, d) ==
    IF d.exc # "none" THEN Raised(d.exc, d.st, cl)
    ELSE IF d.value.none THEN Raised("TypeError", d.st, cl)
    ELSE Replied(d.st, cl, Rread(msg.tag, d.value))

StyxServer_Tread(st, cl, c, msg) ==
    Tread_read(cl, msg, store_read(st, msg.fid, msg.offset, msg.count))

\* Twrite that passes the count of the store through.
StyxServer_Twrite_through(st, cl, c, msg) ==
    LET w == store_write(st, msg.fid, msg.offset, msg.count)
    IN  IF w.exc # "none" THEN Raised(w.exc, w.st, cl)
        ELSE Replied(w.st, cl, Rwrite(msg.tag, w.value))

StyxServer_Twrite(st, cl, c, msg) ==
    LET w == store_write(st, msg.fid, msg.offset, msg.count)
    IN  IF w.exc # "none" THEN Raised(w.exc, w.st, cl)
        ELSE IF w.value = -1 THEN Replied(w.st, cl, Rerror(msg.tag, "Not a file."))
        ELSE IF w.value # msg.count
        THEN Replied(w.st, cl, Rerror(msg.tag, "Failed to write data."))
        ELSE Replied(w.st, cl, Rwrite(msg.tag, w.value))

\* Tclunk that leaves the client in the clients dictionary.
StyxServer_Tclunk_stays(st, cl, c, msg) ==
    LET f == free_qid_path(st, msg.fid)
    IN  IF f.exc # "none" THEN Raised(f.exc, f.st, cl)
        ELSE Replied(f.st, cl, Rclunk(msg.tag))

StyxServer_Tclunk(st, cl, c, msg) ==
    LET f == free_qid_path(st, msg.fid)
    IN  IF f.exc # "none" THEN Raised(f.exc, f.st, cl)
        ELSE IF msg.fid = f.st.root_fid
        THEN Replied(f.st, cl \ {c}, Rclunk(msg.tag))
        ELSE Replied(f.st, cl, Rclunk(msg.tag))

\* Tremove that frees the fid only when the remove succeeded.
StyxServer_Tremove_keeps(st, cl, c, msg, env_ok) ==
    LET r == store_remove(st, msg.fid, env_ok)
    IN  IF r.exc # "none" THEN Raised(r.exc, r.st, cl)
        ELSE IF r.value.ok
        THEN LET f == free_qid_path(r.st, msg.fid)
             IN  IF f.exc # "none" THEN Raised(f.exc, f.st, cl)
                 ELSE Replied(f.st, cl, Rremove(msg.tag))
        ELSE Replied(r.st, cl, Rerror(msg.tag, r.value.err))

StyxServer_Tremove(st, cl, c, msg, env_ok) ==
    LET r == store_remove(st, msg.fid, env_ok)
    IN  IF r.exc # "none" THEN Raised(r.exc, r.st, cl)
        ELSE LET f == free_qid_path(r.st, msg.fid)
             IN  IF f.exc # "none" THEN Raised(f.exc, f.st, cl)
                 ELSE IF r.value.ok THEN Replied(f.st, cl, Rremove(msg.tag))
                 ELSE Replied(f.st, cl, Rerror(msg.tag, r.value.err))

\* handler = self.handlers[message.code]; reply = handler(self, client, message)
handle(st, cl, c, msg, env_ok) ==
    CASE msg.code \notin handlers -> Raised("KeyError", st, cl)
      [] msg.code = Tversion_code -> StyxServer_Tversion(st, cl, c, msg)
      [] msg.code = Tattach_code -> StyxServer_Tattach(st, cl, c, msg)
      [] msg.code = Tstat_code -> StyxServer_Tstat(st, cl, c, msg)
      [] msg.code = Twalk_code -> StyxServer_Twalk(st, cl, c, msg)
      [] msg.code = Topen_code -> StyxServer_Topen(st, cl, c, msg)
      [] msg.code = Tcreate_code -> StyxServer_Tcreate(st, cl, c, msg, env_ok)
      [] msg.code = Tread_code -> StyxServer_Tread(st, cl, c, msg)
      [] msg.code = Twrite_code -> StyxServer_Twrite(st, cl, c, msg)
      [] msg.code = Tclunk_code -> StyxServer_Tclunk(st, cl, c, msg)
      [] msg.code = Tremove_code -> StyxServer_Tremove(st, cl, c, msg, env_ok)


(***************************************************************************)
(* The server: StyxServer.serve.                                           *)
(***************************************************************************)
\* The dictionary dictserver.py serves, and the directory localfileserver.py
\* is started on: an empty one, which Tcreate fills.
DictTree ==
    (<<>> :> "dir") @@ (<<"dir">> :> "dir") @@ (<<"dir", "hello.txt">> :> "file")
        @@ (<<"dir", "u263a">> :> "file")
EmptyTree == (<<>> :> "dir")

StyxServer_init ==
    /\ store_class \in {"DictStore", "FileStore"}
    /\ tree = (IF store_class = "DictStore" THEN DictTree ELSE EmptyTree)
    /\ qids = EmptyDict
    /\ paths = EmptyDict
    /\ opened = EmptyDict
    /\ root_fid = NoneFid
    /\ clients = {}
    /\ client = 0
    /\ pc = "accept"
    /\ message = NoMessage
    /\ reply = NoReply
    /\ session_fids = {}

\* Client() without host and port: reset() and no connect.  self.fids is
\* assigned by connect only: None stands for the missing attribute.
Client_init ==
    [root_fid |-> 0, msize |-> MSIZE, current_fid |-> None,
     replies |-> EmptyDict, fids |-> None, socket |-> None]

NoResult == [kind |-> "new"]
NoCodec == [phase |-> "new"]

Init ==
    /\ StyxServer_init
    /\ self = Client_init
    /\ sock = <<>>
    /\ sent = <<>>
    /\ result = NoResult
    /\ codec = NoCodec

\* conn, client = s.accept(); self.clients[client] = self.store
Accept ==
    /\ pc = "accept"
    /\ client < MaxConn
    /\ client' = client + 1
    /\ clients' = clients \cup {client + 1}
    /\ pc' = "loop"
    /\ message' = NoMessage
    /\ reply' = NoReply
    /\ session_fids' = {}
    /\ UNCHANGED <<store_class, tree, qids, paths, opened, root_fid>>
    /\ UNCHANGED <<client_vars, codec>>

\* while client in self.clients: back to styx.decode, or out to s.accept.
Loop ==
    /\ pc = "loop"
    /\ pc' = IF client \in clients THEN "decode" ELSE "accept"
    /\ message' = NoMessage
    /\ reply' = NoReply
    /\ UNCHANGED <<store_class, tree, qids, paths, opened, root_fid, clients,
                   client, session_fids>>
    /\ UNCHANGED <<client_vars, codec>>

\* The fids a request bound: the fid of a Tattach that returned, the newfid
\* of a Twalk that walked every name.
BoundBy(msg, h) ==
    CASE msg.code = Tattach_code /\ h.exc = "none" -> {msg.fid}
      [] msg.code = Twalk_code /\ h.exc = "none" /\ h.reply.code = Rwalk_code
           /\ h.reply.nwqid = msg.nwname -> {msg.newfid}
      [] OTHER -> {}

\* What one turn of the inner loop does with a decoded message: look up and
\* call the handler, turn KeyError (and StyxServerError, which no handler
\* raises) into Rerror, encode the reply.  Any other exception leaves serve:
\* the IOError of open() on a missing file is no socket.error, and the
\* struct.error of packing a qid of None is raised by reply.encode, outside
\* the try statement.  The result is the handler's, with the reply encoded
\* (NoReply if none) and pc, the place serve is at afterwards.
Turned(h, r, p) ==
    [clients |-> h.clients, pc |-> p, reply |-> r, st |-> h.st, exc |-> h.exc]

\* A turn that sends nothing for a KeyError and goes on with the loop.
encode_reply_silent(h, msg) ==
    CASE h.exc = "none" /\ Encodable(h.reply) -> Turned(h, h.reply, "loop")
      [] h.exc = "none" /\ ~Encodable(h.reply) -> Turned(h, NoReply, "raised")
      [] h.exc = "KeyError" -> Turned(h, NoReply, "loop")
      [] OTHER -> Turned(h, NoReply, "raised")

encode_reply(h, msg) ==
    CASE h.exc = "none" /\ Encodable(h.reply) -> Turned(h, h.reply, "loop")
      [] h.exc = "none" /\ ~Encodable(h.reply) -> Turned(h, NoReply, "raised")
      [] h.exc = "KeyError" ->
             Turned(h, Rerror(msg.tag, "Unsupported message."), "loop")
      [] OTHER -> Turned(h, NoReply, "raised")

serve_turn(st, cl, c, msg, env_ok) ==
    encode_reply(handle(st, cl, c, msg, env_ok), msg)

\* The state serve is in after the turn t for the message msg.
Turn_done(msg, t) ==
    /\ message' = msg
    /\ tree' = t.st.tree
    /\ qids' = t.st.qids
    /\ paths' = t.st.paths
    /\ opened' = t.st.opened
    /\ root_fid' = t.st.root_fid
    /\ clients' = t.clients
    /\ reply' = t.reply
    /\ pc' = t.pc
    /\ session_fids' = (session_fids \cup BoundBy(msg, t)) \cap DOMAIN t.st.qids

\* One turn of the inner loop for a message styx.decode has a class for.
Serve(msg, env_ok) ==
    /\ pc = "decode"
    /\ msg.code \in MessageTypes
    /\ Turn_done(msg, serve_turn(Store, clients, client, msg, env_ok))
    /\ UNCHANGED <<store_class, client>>
    /\ UNCHANGED <<client_vars, codec>>

ServeTversion ==
    \E tag \in Tags, msize \in Msizes, version \in Versions :
        Serve(Tversion(tag, msize, version), TRUE)

ServeTattach ==
    \E tag \in Tags, fid \in Fids, afid \in Afids :
        Serve(Tattach(tag, fid, afid, "inferno", ""), TRUE)

ServeTstat ==
    \E tag \in Tags, fid \in Fids : Serve(Tstat(tag, fid), TRUE)

ServeTwalk ==
    \E tag \in Tags, fid \in Fids, newfid \in Fids, wname \in Wnames :
        Serve(Twalk(tag, fid, newfid, wname), TRUE)

ServeTopen ==
    \E tag \in Tags, fid \in Fids, mode \in Modes : Serve(Topen(tag, fid, mode), TRUE)

\* The host refuses to create an object deeper than MaxDepth.
ServeTcreate ==
    \E tag \in Tags, fid \in Fids, name \in CreateNames, perm \in Perms,
       mode \in CreateModes, env_ok \in BOOLEAN :
        /\ env_ok /\ fid \in DOMAIN paths => Len(real_path(paths[fid])) < MaxDepth
        /\ Serve(Tcreate(tag, fid, name, perm, mode), env_ok)

ServeTread ==
    \E tag \in Tags, fid \in Fids, offset \in ReadOffsets, count \in ReadCounts :
        Serve(Tread(tag, fid, offset, count), TRUE)

ServeTwrite ==
    \E tag \in Tags, fid \in Fids, n \in DataLens : Serve(Twrite(tag, fid, 0, n), TRUE)

ServeTclunk ==
    \E tag \in Tags, fid \in Fids : Serve(Tclunk(tag, fid), TRUE)

ServeTremove ==
    \E tag \in Tags, fid \in Fids, env_ok \in BOOLEAN :
        Serve(Tremove(tag, fid), env_ok)

\* A message of a type the server has no handler for (a reply type).
UnhandledCodes == {Rversion_code, Rclunk_code}

ServeUnhandled ==
    \E tag \in Tags, code \in UnhandledCodes :
        Serve([code |-> code, tag |-> tag], TRUE)

\* A message of a type styx.decode has no class for (Tflush, whose entry in
\* MessageTypes is commented out, and a code of no message): the KeyError of
\* MessageTypes[message_type] is raised again by decode, outside the try
\* statement of serve.
UnknownCodes == {Tflush_code, 99}

DecodeUnknown ==
    \E tag \in Tags, code \in UnknownCodes :
        /\ pc = "decode"
        /\ code \notin MessageTypes
        /\ message' = [code |-> code, tag |-> tag]
        /\ reply' = NoReply
        /\ pc' = "raised"
        /\ UNCHANGED <<store_class, tree, qids, paths, opened, root_fid,
                       clients, client, session_fids>>
        /\ UNCHANGED <<client_vars, codec>>

\* The peer closes the connection while serve waits in styx.decode: the
\* sock.recv of SocketReceiver.recv returns no bytes.
RecvEOF ==
    /\ pc = "decode"
    /\ pc' = "recv"
    /\ UNCHANGED <<store_class, tree, qids, paths, opened, root_fid, clients,
                   client, message, reply, session_fids>>
    /\ UNCHANGED <<client_vars, codec>>

\* while len(data) < n: data += self.sock.recv(n - len(data)).  On a closed
\* connection every sock.recv returns no bytes, data stays as it is and the
\* test holds again: an iteration changes nothing.
RecvSpin ==
    /\ pc = "recv"
    /\ pc' = "recv"
    /\ UNCHANGED <<store_class, tree, qids, paths, opened, root_fid, clients,
                   client, message, reply, session_fids>>
    /\ UNCHANGED <<client_vars, codec>>

Next ==
    \/ Accept
    \/ Loop
    \/ ServeTversion
    \/ ServeTattach
    \/ ServeTstat
    \/ ServeTwalk
    \/ ServeTopen
    \/ ServeTcreate
    \/ ServeTread
    \/ ServeTwrite
    \/ ServeTclunk
    \/ ServeTremove
    \/ ServeUnhandled
    \/ DecodeUnknown
    \/ RecvEOF
    \/ RecvSpin

Spec == Init /\ [][Next]_vars

\* serve is one thread that runs whenever it can take a step.
FairSpec == Spec /\ WF_vars(Next)

(***************************************************************************)
(* Client.send, against a peer that may answer in any order.               *)
(***************************************************************************)
\* The while ... else of send: tag in self.replies ends the loop through its
\* else clause, a decoded reply with the tag through break, any other reply
\* is stored by self.replies[tag] = reply.  styx.decode on a socket with
\* nothing to deliver does not return.
RECURSIVE send_loop(_, _, _)
send_loop(replies, inbox, tag) ==
    IF tag \in DOMAIN replies
    THEN [reply |-> replies[tag], sock |-> inbox, kind |-> "reply",
          replies |-> Del(replies, tag)]
    ELSE IF inbox = <<>>
    THEN [reply |-> NoReply, sock |-> inbox, kind |-> "blocked",
          replies |-> replies]
    ELSE IF Head(inbox).tag = tag
    THEN [reply |-> Head(inbox), sock |-> Tail(inbox), kind |-> "reply",
          replies |-> replies]
    ELSE send_loop(Put(replies, tag, Head(inbox)), Tail(inbox), tag)

\* if isinstance(reply, styx.Rerror): raise ClientError(reply.ename)
raise_Rerror(r) ==
    IF r.kind = "reply" /\ r.reply.code = Rerror_code
    THEN [r EXCEPT !.kind = "ClientError"]
    ELSE r

Client_send(replies, inbox, msg) ==
    raise_Rerror(send_loop(replies, inbox, msg.tag))

SendTags == 0 .. 2
SendReplies == {Rclunk(t) : t \in SendTags} \cup {Rerror(t, "e") : t \in SendTags}
Inboxes == UNION {[1 .. n -> SendReplies] : n \in 0 .. MaxInbox}

SendInit ==
    /\ StyxServer_init
    /\ self = Client_init
    /\ sock \in Inboxes
    /\ sent = <<>>
    /\ result = NoResult
    /\ codec = NoCodec

Sent(msg, r) ==
    /\ self' = [self EXCEPT !.replies = r.replies]
    /\ sock' = r.sock
    /\ sent' = <<msg>>
    /\ result' = [reply |-> r.reply, kind |-> r.kind]
    /\ UNCHANGED <<server_vars, codec>>

\* One call self.send(msg); a client blocked in a call makes no other.
Send ==
    \E tag \in SendTags :
        /\ result.kind # "blocked"
        /\ Sent(Tclunk(tag, 0), Client_send(self.replies, sock, Tclunk(tag, 0)))

SendSpec == SendInit /\ [][Send]_vars

(***************************************************************************)
(* The Client (client.py) talking to the server.  A client call is made on *)
(* a world w: the Client object (w.self), the server it is connected to    *)
(* (w.st, w.clients, w.client, w.pc, w.session), the messages sent so far  *)
(* (w.sent), the calls of _next_fid made so far (w.alloc), the exception   *)
(* being raised (w.exc, "none" if none) and the value returned last        *)
(* (w.value).  A call on a world with an exception raised does nothing.    *)
(* The server answers a request in the turn serve_turn; a server that is   *)
(* not in styx.decode for this connection never answers and the client     *)
(* stays in send ("blocked").                                              *)
(***************************************************************************)
MaxClientFids == 4   \* client calls are made while fewer fids are in use
MaxTreeDepth == 2    \* directories are made down to this depth
MaxSessions == 1     \* connections the client makes
MaxPathLen == 4      \* pieces of the path of a fid

World ==
    [clients |-> clients, client |-> client, pc |-> pc, self |-> self,
     sent |-> <<>>, value |-> None, st |-> Store, exc |-> "none",
     session |-> session_fids, alloc |-> <<>>]

raise(w, e, v) == [w EXCEPT !.exc = e, !.value = v]
return(w, v) == [w EXCEPT !.value = v]

\* The world after the server's turn t for msg and the reading r of the
\* reply by Client.send.
received(w, msg, t, r) ==
    [w EXCEPT !.st = t.st,
              !.clients = t.clients,
              !.pc = IF t.pc # "loop" THEN t.pc
                     ELSE IF w.client \in t.clients THEN "decode" ELSE "accept",
              !.session = (w.session \cup BoundBy(msg, t)) \cap DOMAIN t.st.qids,
              !.sent = Append(w.sent, msg),
              !.self.replies = r.replies,
              !.exc = IF r.kind = "reply" THEN "none" ELSE r.kind,
              !.value = IF r.kind = "ClientError" THEN r.reply.ename
                        ELSE r.reply]

answered(w, msg, t) ==
    received(w, msg, t,
             Client_send(w.self.replies,
                         IF t.pc = "loop" THEN <<t.reply>> ELSE <<>>, msg))

self_send(w, msg) ==
    IF w.exc # "none" THEN w
    ELSE IF w.pc # "decode"
    THEN [w EXCEPT !.sent = Append(w.sent, msg), !.exc = "blocked"]
    ELSE answered(w, msg, serve_turn(w.st, w.clients, w.client, msg, TRUE))

\* self.fids.remove(fid)
removed(w, fid) ==
    IF w.exc # "none" THEN w ELSE [w EXCEPT !.self.fids = @ \ {fid}]

self__clunk(w, fid) == removed(self_send(w, Tclunk(2, fid)), fid)

\* _clunk_old that clunks nothing.
self__clunk_never(w, fid) == w

self__clunk_old(w, fid) ==
    IF w.exc # "none" \/ fid = w.self.root_fid THEN w ELSE self__clunk(w, fid)

stat_of(w) == IF w.exc # "none" THEN w ELSE return(w, w.value.stat)

self__stat(w, fid) == stat_of(self_send(w, Tstat(2, fid)))

\* while next_fid in self.fids: next_fid += 1
RECURSIVE first_free(_, _)
first_free(fids, next_fid) ==
    IF next_fid \in fids THEN first_free(fids, next_fid + 1) ELSE next_fid

Client__next_fid(fids, fid) ==
    first_free(fids, IF fid + 1 > Cardinality(fids) THEN 0 ELSE fid + 1)

\* self.fids.add(next_fid); return next_fid
added(w, fid, next_fid) ==
    [w EXCEPT !.self.fids = @ \cup {next_fid},
              !.alloc = Append(@, [fid |-> fid, fids |-> w.self.fids,
                                   next_fid |-> next_fid]),
              !.value = next_fid]

self__next_fid(w, fid) ==
    IF w.exc # "none" THEN w
    ELSE added(w, fid, Client__next_fid(w.self.fids, fid))

\* _walk: elements[:Client.MAXWELEM] and elements[Client.MAXWELEM:]
walk_pieces(elements) ==
    SubSeq(elements, 1, IF Len(elements) < MAXWELEM THEN Len(elements)
                        ELSE MAXWELEM)
walk_elements(elements) == SubSeq(elements, MAXWELEM + 1, Len(elements))

RECURSIVE self__walk_from(_, _, _)

walk_clunked(w, elements, newfid) ==
    IF w.exc # "none" THEN w
    ELSE IF walk_elements(elements) = <<>> THEN return(w, newfid)
    ELSE self__walk_from(w, walk_elements(elements), newfid)

walk_replied(w, elements, fid, newfid) ==
    IF w.exc # "none" THEN w
    ELSE IF w.value.nwqid < Len(walk_pieces(elements))
    THEN raise(w, "ClientError", "No such file or directory")
    ELSE walk_clunked(IF fid # w.self.current_fid THEN self__clunk_old(w, fid)
                      ELSE w,
                      elements, newfid)

walk_newfid(w, elements, fid) ==
    IF w.exc # "none" THEN w
    ELSE walk_replied(self_send(w, Twalk(2, fid, w.value, walk_pieces(elements))),
                      elements, fid, w.value)

self__walk_from(w, elements, fid) ==
    walk_newfid(self__next_fid(w, fid), elements, fid)

self__walk(w, path) == self__walk_from(w, split(path), w.self.current_fid)

\* connect: s.connect is accepted by a server waiting in s.accept; otherwise
\* it waits in the queue of the listening socket and nothing reads what the
\* client sends.
connected(w) ==
    IF w.pc # "accept" THEN [w EXCEPT !.self.socket = "s"]
    ELSE [w EXCEPT !.self.socket = "s", !.client = @ + 1,
                   !.clients = @ \cup {w.client + 1}, !.pc = "decode",
                   !.session = {}]

attached(w) ==
    IF w.exc # "none" THEN w
    ELSE return([w EXCEPT !.self.root_fid = 0, !.self.current_fid = 0,
                          !.self.fids = {0}], None)

versioned(w, uname, aname) ==
    IF w.exc # "none" THEN w
    ELSE IF w.value.version # "9P2000"
    THEN raise(w, "ClientError", "Server's protocol version is not supported.")
    ELSE attached(self_send(
             [w EXCEPT !.self.msize = IF @ < w.value.msize THEN @
                                      ELSE w.value.msize],
             Tattach(1, 0, <<0, 0>>, uname, aname)))

Client_connect(w, uname, aname) ==
    versioned(self_send(connected(w), Tversion(0, w.self.msize, "9P2000")),
              uname, aname)

\* disconnect: self.socket.close() and self.reset(), which leaves self.fids
\* as it is.  A server in styx.decode for this connection then reads the
\* end of the stream.
closed(w) ==
    IF w.exc # "none" THEN w
    ELSE return([w EXCEPT !.self = [Client_init EXCEPT !.fids = w.self.fids],
                          !.pc = IF @ = "decode" THEN "recv" ELSE @], None)

Client_disconnect(w) == closed(self_send(w, Tclunk(2, w.self.root_fid)))

\* len(reply.data) for a read of a directory.
data_len(w) == Len(w.value.data.string)

RECURSIVE ls_read(_, _, _)

\* data += reply.data; the loop ends at a reply with no data.
ls_data(w, newfid, offset) ==
    IF w.exc # "none" THEN w
    ELSE IF data_len(w) = 0 THEN w
    ELSE ls_read(w, newfid, offset + data_len(w))

ls_read(w, newfid, offset) ==
    IF w.exc # "none" THEN w
    ELSE ls_data(self_send(w, Tread(2, newfid, offset, w.self.msize - 24)),
                 newfid, offset)

ls_info(w, newfid) ==
    IF w.exc # "none" THEN w ELSE return(self__clunk_old(w, newfid), None)

ls_stat(w, newfid) ==
    IF w.exc # "none" THEN w
    ELSE IF w.value.dir
    THEN ls_info(ls_read(self_send(w, Topen(2, newfid, 0)), newfid, 0), newfid)
    ELSE ls_info(w, newfid)

ls_newfid(w) ==
    IF w.exc # "none" THEN w ELSE ls_stat(self__stat(w, w.value), w.value)

Client_ls(w, path) == ls_newfid(self__walk(w, path))

cd_current(w, newfid) ==
    IF w.exc # "none" THEN w
    ELSE return([w EXCEPT !.self.current_fid = newfid], None)

cd_newfid(w) ==
    IF w.exc # "none" THEN w
    ELSE cd_current(self__clunk_old(w, w.self.current_fid), w.value)

Client_cd(w, path) == cd_newfid(self__walk(w, path))

\* mkdir and create take the path as the sequence of its characters (a path
\* without "/" as the sequence of itself).  "/".join(path[:-1]) puts a "/"
\* between the characters of the path without its last one; split at "/"
\* again, every character is a piece of its own and a "/" of the path gives
\* two empty pieces.
RECURSIVE join_chars(_)
join_chars(chars) ==
    IF chars = <<>> THEN <<>>
    ELSE (IF Head(chars) = "/" THEN <<"", "">> ELSE <<Head(chars)>>)
             \o join_chars(Tail(chars))

create_walk(path) ==
    IF \E i \in 1 .. Len(path) : path[i] = "/"
    THEN (IF Len(path) = 1 THEN <<"">> ELSE join_chars(Front(path)))
    ELSE <<"">>

create_name(path) == path[Len(path)]

BitOr(a, b) == a + b - BitAnd(a, b)
Or32(a, b) == <<BitOr(a[1], b[1]), BitOr(a[2], b[2])>>

create_sent(w, fid) ==
    IF w.exc # "none" THEN w ELSE return(self__clunk_old(w, fid), None)

create_fid(w, path, perm, mode) ==
    IF w.exc # "none" THEN w
    ELSE create_sent(self_send(w, Tcreate(2, w.value, create_name(path),
                                          perm, mode)),
                     w.value)

Client_mkdir(w, path, perm) ==
    create_fid(self__walk(w, create_walk(path)), path, Or32(DMDIR, perm), 0)

Client_create(w, path, perm, mode) ==
    create_fid(self__walk(w, create_walk(path)), path, perm, mode)

\* open ends with styx.File(fid, mode, self); styx.py defines no File.
open_sent(w) ==
    IF w.exc # "none" THEN w ELSE raise(w, "AttributeError", None)

open_fid(w, mode) ==
    IF w.exc # "none" THEN w ELSE open_sent(self_send(w, Topen(2, w.value, mode)))

Client_open(w, path, mode) == open_fid(self__walk(w, path), mode)

read_data(w) == IF w.exc # "none" THEN w ELSE return(w, w.value.data)

Client_read(w, fid, offset, count) ==
    read_data(self_send(w, Tread(2, fid, offset, count)))

(***************************************************************************)
(* The calls a program makes on its Client, one after the other.           *)
(***************************************************************************)
LongPath == [i \in 1 .. MAXWELEM + 1 |-> ".."]
ClientPaths == {<<"dir">>, <<"d">>, LongPath}
LsPaths == ClientPaths \cup {<<"">>, <<"dir", "hello.txt", "dir">>}
CreatePaths == {<<"d">>, <<"d", "/", "d">>}

ClientInit ==
    /\ StyxServer_init
    /\ self = Client_init
    /\ sock = <<>>
    /\ sent = <<>>
    /\ result = NoResult
    /\ codec = NoCodec

\* The state after a call that left the world w.
Called(op, w) ==
    /\ \A k \in DOMAIN w.st.tree : Len(k) <= MaxTreeDepth
    /\ \A fid \in DOMAIN w.st.paths : Len(w.st.paths[fid]) <= MaxPathLen
    /\ tree' = w.st.tree
    /\ qids' = w.st.qids
    /\ paths' = w.st.paths
    /\ opened' = w.st.opened
    /\ root_fid' = w.st.root_fid
    /\ clients' = w.clients
    /\ client' = w.client
    /\ pc' = w.pc
    /\ message' = NoMessage
    /\ reply' = NoReply
    /\ session_fids' = w.session
    /\ self' = w.self
    /\ sock' = <<>>
    /\ sent' = w.sent
    /\ result' = [value |-> w.value,
                  kind |-> IF w.exc = "none" THEN "returned" ELSE w.exc,
                  alloc |-> w.alloc, op |-> op]
    /\ UNCHANGED <<store_class, codec>>

\* A call is made by a program whose last call ended, on a connected Client
\* (connect excepted).
Callable ==
    /\ result.kind # "blocked"
    /\ self.socket # None
    /\ Cardinality(self.fids) < MaxClientFids

Connect ==
    /\ result.kind # "blocked"
    /\ self.socket = None
    /\ client < MaxSessions
    /\ Called("connect", Client_connect(World, "inferno", ""))

Disconnect ==
    /\ Callable
    /\ Called("disconnect", Client_disconnect(World))

Ls == \E path \in LsPaths : Callable /\ Called("ls", Client_ls(World, path))

Cd == \E path \in ClientPaths : Callable /\ Called("cd", Client_cd(World, path))

Mkdir ==
    \E path \in CreatePaths :
        Callable /\ Called("mkdir", Client_mkdir(World, path, <<0, 493>>))

Create ==
    \E path \in CreatePaths :
        Callable /\ Called("create", Client_create(World, path, <<0, 420>>, 1))

Open ==
    \E path \in ClientPaths :
        Callable /\ Called("open", Client_open(World, path, 0))

Read ==
    \E fid \in Fids :
        Callable /\ Called("read", Client_read(World, fid, 0, 2))

ClientNext ==
    \/ Connect
    \/ Disconnect
    \/ Ls
    \/ Cd
    \/ Mkdir
    \/ Create
    \/ Open
    \/ Read

ClientSpec == ClientInit /\ [][ClientNext]_vars

(***************************************************************************)
(* The codec (styx.py), continued: the formats of the messages, encode and *)
(* decode.                                                                 *)
(***************************************************************************)
\* The format lists of the message classes and of Stat, a length given as
\* the string of its numeral.
Stat_format ==
    << <<"size", "2">>, <<"type", "2">>, <<"dev", "4">>, <<"qid", "13">>,
       <<"mode", "4">>, <<"atime", "4">>, <<"mtime", "4">>, <<"length", "8">>,
       <<"name", "s">>, <<"uid", "s">>, <<"gid", "s">>, <<"muid", "s">> >>

format(code) ==
    CASE code \in {Tversion_code, Rversion_code} ->
             << <<"msize", "4">>, <<"version", "s">> >>
      [] code = Tattach_code ->
             << <<"fid", "4">>, <<"afid", "4">>, <<"uname", "s">>,
                <<"aname", "s">> >>
      [] code = Rattach_code -> << <<"qid", "13">> >>
      [] code = Rerror_code -> << <<"ename", "s">> >>
      [] code = Twalk_code ->
             << <<"fid", "4">>, <<"newfid", "4">>, <<"nwname", "2">> >>
      [] code = Rwalk_code -> << <<"nwqid", "2">> >>
      [] code = Topen_code -> << <<"fid", "4">>, <<"mode", "1">> >>
      [] code \in {Ropen_code, Rcreate_code} ->
             << <<"qid", "13">>, <<"iounit", "4">> >>
      [] code = Tcreate_code ->
             << <<"fid", "4">>, <<"name", "s">>, <<"perm", "4">>,
                <<"mode", "1">> >>
      [] code = Tread_code ->
             << <<"fid", "4">>, <<"offset", "8">>, <<"count", "4">> >>
      [] code = Rread_code -> << <<"count", "4">>, <<"data", "count">> >>
      [] code = Twrite_code ->
             << <<"fid", "4">>, <<"offset", "8">>, <<"count", "4">>,
                <<"data", "count">> >>
      [] code = Rwrite_code -> << <<"count", "4">> >>
      [] code \in {Tclunk_code, Tremove_code, Tstat_code} -> << <<"fid", "4">> >>
      [] code \in {Rclunk_code, Rremove_code} -> <<>>
      [] code = Rstat_code -> << <<"stat_size", "2">>, <<"stat", "stat">> >>

encode_field(value, name, length) ==
    CASE length = "s" -> encode_string(value)
      [] length = "n" -> encode_data(value)
      [] length = "1" -> pack_B(value)
      [] length = "2" -> pack_H(value)
      [] length = "4" -> pack_I(value)
      [] length = "8" -> pack_Q(value)
      [] name = "qid" -> encode_qid(value)
      [] name = "stat" -> Stat_encode(value)
      [] OTHER -> value

RECURSIVE encode_format(_, _)
encode_format(obj, fmt) ==
    IF fmt = <<>> THEN <<>>
    ELSE encode_field(obj[fmt[1][1]], fmt[1][1], fmt[1][2])
             \o encode_format(obj, Tail(fmt))

RECURSIVE encode_strings(_)
encode_strings(wname) ==
    IF wname = <<>> THEN <<>>
    ELSE encode_string(Head(wname)) \o encode_strings(Tail(wname))

RECURSIVE encode_qids(_)
encode_qids(wqid) ==
    IF wqid = <<>> THEN <<>>
    ELSE encode_qid(Head(wqid)) \o encode_qids(Tail(wqid))

\* A size prefix that does not count its own four bytes.
with_size_short(data) == pack_I(U32(Len(data))) \o data

\* data = struct.pack("<I", len(data) + 4) + data
with_size(data) == pack_I(U32(Len(data) + 4)) \o data

\* The encode of StyxMessage, Twalk, Rwalk and Rstat: the bytes given to
\* stream.sendall.
encode(msg) ==
    CASE msg.code = Twalk_code ->
             with_size(pack_B(msg.code) \o pack_H(msg.tag)
                           \o encode_format([msg EXCEPT !.nwname = Len(msg.wname)],
                                            format(msg.code))
                           \o encode_strings(msg.wname))
      [] msg.code = Rwalk_code ->
             with_size(pack_B(msg.code) \o pack_H(msg.tag)
                           \o encode_format([msg EXCEPT !.nwqid = Len(msg.wqid)],
                                            format(msg.code))
                           \o encode_qids(msg.wqid))
      [] msg.code = Rstat_code ->
             with_size(pack_B(msg.code) \o pack_H(msg.tag)
                           \o encode_data(Stat_encode(msg.stat)))
      [] OTHER ->
             with_size(pack_B(msg.code) \o pack_H(msg.tag)
                           \o encode_format(msg, format(msg.code)))

\* The encoding of the variants of the 9P2000 message inventory that
\* styx.py has no class for: Tflush (oldtag), Rflush, Twstat (fid and the
\* stat with its two sizes) and Rwstat.
Rwstat_code == 127
Tflush(tag, oldtag) == [code |-> Tflush_code, tag |-> tag, oldtag |-> oldtag]
Twstat(tag, fid, stat) ==
    [code |-> Twstat_code, stat |-> stat, fid |-> fid, tag |-> tag]
Rwstat(tag) == [code |-> Rwstat_code, tag |-> tag]

inventory_encode(msg) ==
    CASE msg.code = Tflush_code ->
             with_size(pack_B(msg.code) \o pack_H(msg.tag) \o pack_H(msg.oldtag))
      [] msg.code = Twstat_code ->
             with_size(pack_B(msg.code) \o pack_H(msg.tag) \o pack_I(msg.fid)
                           \o encode_data(Stat_encode(msg.stat)))
      [] msg.code \in {Rflush_code, Rwstat_code} ->
             with_size(pack_B(msg.code) \o pack_H(msg.tag))
      [] OTHER -> encode(msg)

\* StringReceiver: recv returns the bytes from ptr on, fewer than n at the
\* end of the string, and moves ptr by n.
StringReceiver(string) == [string |-> string, ptr |-> 0]

recv(stream, n) ==
    [value |-> SubSeq(stream.string, stream.ptr + 1,
                      IF stream.ptr + n < Len(stream.string)
                      THEN stream.ptr + n ELSE Len(stream.string)),
     stream |-> [stream EXCEPT !.ptr = @ + n]]

\* A step of decoding gives [stream, exc, value].
Got(stream, value) == [value |-> value, exc |-> "none", stream |-> stream]
Failed(stream, e) == [value |-> None, exc |-> e, stream |-> stream]

\* struct.unpack of the n bytes received: struct.error unless there are n.
unpacked(r, n) ==
    IF Len(r.value) # n THEN Failed(r.stream, "struct.error")
    ELSE Got(r.stream, CASE n = 1 -> r.value[1]
                         [] n = 2 -> unpack_H(r.value)
                         [] n = 4 -> unpack_I(r.value)
                         [] n = 8 -> unpack_Q(r.value)
                         [] n = 13 -> <<r.value[1],
                                        unpack_I(SubSeq(r.value, 2, 5)),
                                        unpack_Q(SubSeq(r.value, 6, 13))>>)

unpack(stream, n) == unpacked(recv(stream, n), n)

decoded_utf8(r) ==
    IF utf8_valid(r.value) THEN Got(r.stream, utf8_decode(r.value))
    ELSE Failed(r.stream, "UnicodeDecodeError")

string_of(length) ==
    IF length.exc # "none" THEN length
    ELSE IF length.value > 0
    THEN decoded_utf8(recv(length.stream, length.value))
    ELSE Got(length.stream, <<>>)

decode_string(stream) == string_of(unpack(stream, 2))

data_of(n) ==
    IF n.exc # "none" THEN n
    ELSE Got(recv(n.stream, n.value).stream, recv(n.stream, n.value).value)

decode_data(stream) == data_of(unpack(stream, 2))

decode_qid(stream) == unpack(stream, 13)

RECURSIVE decode_format(_, _, _)

\* value = Stat(); value.decode(stream)
Stat_decode(stream) == decode_format(stream, [class |-> "Stat"], Stat_format)

decode_field(stream, obj, name, length) ==
    CASE length = "s" -> decode_string(stream)
      [] length = "n" -> decode_data(stream)
      [] length = "1" -> unpack(stream, 1)
      [] length = "2" -> unpack(stream, 2)
      [] length = "4" -> unpack(stream, 4)
      [] length = "8" -> unpack(stream, 8)
      [] name = "qid" -> decode_qid(stream)
      [] name = "stat" -> Stat_decode(stream)
      [] length \in DOMAIN obj ->
             Got(recv(stream, Int32(obj[length])).stream,
                 recv(stream, Int32(obj[length])).value)
      [] OTHER -> Failed(stream, "StyxError")

field_set(v, obj, name, fmt) ==
    IF v.exc # "none" THEN v
    ELSE decode_format(v.stream, Put(obj, name, v.value), Tail(fmt))

decode_format(stream, obj, fmt) ==
    IF fmt = <<>> THEN Got(stream, obj)
    ELSE field_set(decode_field(stream, obj, fmt[1][1], fmt[1][2]),
                   obj, fmt[1][1], fmt)

\* Twalk.decode and Rwalk.decode: the nwname strings, the nwqid qids.
RECURSIVE decode_strings(_, _, _)
string_appended(v, obj, i) ==
    IF v.exc # "none" THEN v
    ELSE decode_strings(v.stream, [obj EXCEPT !.wname = Append(@, v.value)],
                        i + 1)

decode_strings(stream, obj, i) ==
    IF i < obj.nwname THEN string_appended(decode_string(stream), obj, i)
    ELSE Got(stream, obj)

RECURSIVE decode_qids(_, _, _)
qid_appended(v, obj, i) ==
    IF v.exc # "none" THEN v
    ELSE decode_qids(v.stream, [obj EXCEPT !.wqid = Append(@, v.value)], i + 1)

decode_qids(stream, obj, i) ==
    IF i < obj.nwqid THEN qid_appended(decode_qid(stream), obj, i)
    ELSE Got(stream, obj)

names_of(v) ==
    IF v.exc # "none" THEN v
    ELSE decode_strings(v.stream, Put(v.value, "wname", <<>>), 0)

qids_of(v) ==
    IF v.exc # "none" THEN v
    ELSE decode_qids(v.stream, Put(v.value, "wqid", <<>>), 0)

\* Message().decode(size, tag, stream)
Message_decode(code, size, tag, stream) ==
    CASE code = Twalk_code ->
             names_of(decode_format(stream,
                                    [code |-> code, tag |-> tag, size |-> size],
                                    format(code)))
      [] code = Rwalk_code ->
             qids_of(decode_format(stream,
                                   [code |-> code, tag |-> tag, size |-> size],
                                   format(code)))
      [] OTHER ->
             decode_format(stream, [code |-> code, tag |-> tag, size |-> size],
                           format(code))

\* message_type is unpacked as a signed byte ("<b").
signed(b) == IF b < 128 THEN b ELSE b - 256

tag_read(size, message_type, tag) ==
    IF tag.exc # "none" THEN tag
    ELSE IF signed(message_type) \notin MessageTypes
    THEN Failed(tag.stream, "KeyError")
    ELSE Message_decode(signed(message_type), size, tag.value, tag.stream)

type_read(size, message_type) ==
    IF message_type.exc # "none" THEN message_type
    ELSE tag_read(size, message_type.value, unpack(message_type.stream, 2))

size_read(size) ==
    IF size.exc # "none" THEN size
    ELSE type_read(size.value, unpack(size.stream, 1))

\* styx.decode(data = data)
decode(data) ==
    IF data = <<>> THEN Failed(StringReceiver(data), "StyxError")
    ELSE size_read(unpack(StringReceiver(data), 4))

(***************************************************************************)
(* Messages to encode and decode.                                          *)
(***************************************************************************)
CodecTags == {0, 258, 65535}
Fids32 == {<<0, 1>>, <<258, 772>>}
Offsets == {<<0, 0, 0, 0>>, <<258, 772, 1286, 1800>>}
Strings == {<<>>, <<57, 80>>, <<233, 9786>>}
Datas == {<<>>, <<0, 255, 10>>}
Qids == {<<128, <<0, 0>>, <<0, 0, 0, 1>>>>, <<0, <<1, 2>>, <<3, 4, 5, 6>>>>}
WireModes == {0, 255}

\* Rread and Twrite with their data: count is len(data).
Rread_data(tag, data) ==
    [code |-> Rread_code, data |-> data, count |-> U32(Len(data)), tag |-> tag]
Twrite_data(tag, fid, offset, data) ==
    [code |-> Twrite_code, data |-> data, fid |-> fid, offset |-> offset,
     count |-> U32(Len(data)), tag |-> tag]

Stat(qid, mode, length, name, uid) ==
    [qid |-> qid, type |-> 0, dev |-> <<0, 0>>, mode |-> mode,
     atime |-> <<1, 2>>, mtime |-> NOFID, length |-> length, name |-> name,
     uid |-> uid, gid |-> <<>>, muid |-> uid]

Stats ==
    {Stat(qid, mode, length, name, <<57, 80>>) :
        qid \in Qids, mode \in {DMDIR}, length \in Offsets, name \in Strings}

Messages ==
    {Tversion(tag, fid, s) : tag \in CodecTags, fid \in Fids32, s \in Strings}
    \cup {Rversion(tag, <<0, 16384>>, s) : tag \in CodecTags, s \in Strings}
    \cup {Tattach(tag, fid, NOFID, s, <<>>) :
              tag \in CodecTags, fid \in Fids32, s \in Strings}
    \cup {Rattach(tag, qid) : tag \in CodecTags, qid \in Qids}
    \cup {Rerror(tag, s) : tag \in CodecTags, s \in Strings}
    \cup {Twalk(0, fid, NOFID, wname) :
              fid \in Fids32, wname \in {<<>>} \cup (Strings \X Strings)}
    \cup {Rwalk(tag, wqid) :
              tag \in CodecTags, wqid \in {<<>>} \cup (Qids \X Qids)}
    \cup {Topen(tag, fid, mode) :
              tag \in CodecTags, fid \in Fids32, mode \in WireModes}
    \cup {Ropen(tag, qid, <<0, 16384>>) : tag \in CodecTags, qid \in Qids}
    \cup {Tcreate(0, fid, s, DMDIR, mode) :
              fid \in Fids32, s \in Strings, mode \in WireModes}
    \cup {Rcreate(tag, qid, NOFID) : tag \in CodecTags, qid \in Qids}
    \cup {Tread(0, fid, offset, NOFID) : fid \in Fids32, offset \in Offsets}
    \cup {Rread_data(tag, data) : tag \in CodecTags, data \in Datas}
    \cup {Twrite_data(0, fid, offset, data) :
              fid \in Fids32, offset \in Offsets, data \in Datas}
    \cup {Rwrite(tag, fid) : tag \in CodecTags, fid \in Fids32}
    \cup {Tclunk(tag, fid) : tag \in CodecTags, fid \in Fids32}
    \cup {Rclunk(tag) : tag \in CodecTags}
    \cup {Tremove(tag, fid) : tag \in CodecTags, fid \in Fids32}
    \cup {Rremove(tag) : tag \in CodecTags}
    \cup {Tstat(tag, fid) : tag \in CodecTags, fid \in Fids32}
    \cup {Rstat(0, stat) : stat \in Stats}

InventoryMessages ==
    Messages
    \cup {Tflush(tag, oldtag) : tag \in CodecTags, oldtag \in CodecTags}
    \cup {Rflush(tag) : tag \in CodecTags}
    \cup {Twstat(0, fid, stat) : fid \in Fids32, stat \in Stats}
    \cup {Rwstat(tag) : tag \in CodecTags}

CodecInit ==
    /\ StyxServer_init
    /\ self = Client_init
    /\ sock = <<>>
    /\ sent = <<>>
    /\ result = NoResult
    /\ codec = NoCodec

\* A peer encodes a message of the inventory.
Encode ==
    \E msg \in InventoryMessages :
        /\ codec' = [data |-> inventory_encode(msg), msg |-> msg,
                     phase |-> "encoded"]
        /\ UNCHANGED <<server_vars, client_vars>>

\* styx.decode(data = data) on the bytes encoded.
Decode ==
    /\ codec.phase = "encoded"
    /\ codec' = [data |-> codec.data, msg |-> codec.msg, phase |-> "decoded",
                 out |-> decode(codec.data)]
    /\ UNCHANGED <<server_vars, client_vars>>

CodecNext == Encode \/ Decode

CodecSpec == CodecInit /\ [][CodecNext]_vars

(***************************************************************************)
(* Properties.  A turn of the inner loop is a step from pc = "decode"; the *)
(* request it handled is message' and the reply it encoded is reply'.      *)
(***************************************************************************)
Turn == pc = "decode" /\ message'.code \in MessageTypes

Bound(fid) == fid \in DOMAIN qids
Released(fid) ==
    /\ fid \notin DOMAIN qids'
    /\ fid \notin DOMAIN paths'
    /\ fid \notin DOMAIN opened'

\* C1: walk atomicity.  When a Twalk is answered with Rerror or with an Rwalk
\* of fewer qids than names, a newfid that was unbound before the request is
\* unbound after it: it is in none of the store's tables.
C1_WalkAtomicity ==
    [][(/\ Turn
        /\ message'.code = Twalk_code
        /\ ~Bound(message'.newfid)
        /\ \/ reply'.code = Rerror_code
           \/ reply'.code = Rwalk_code /\ reply'.nwqid < message'.nwname)
       => Released(message'.newfid)]_vars

\* A Twalk has just been answered with some but not all of the qids, and its
\* newfid is unbound.
C1_Witness ==
    /\ pc = "loop"
    /\ message.code = Twalk_code
    /\ reply.code = Rwalk_code
    /\ 0 < reply.nwqid
    /\ reply.nwqid < message.nwname
    /\ message.newfid \notin DOMAIN qids

\* C2: fid accounting.  Each request changes the set of live fids (the keys
\* of the store's fid table) exactly as the accounting says: a Tattach
\* answered Rattach adds its fid, a Twalk answered with a qid per name adds
\* its newfid, a Tcreate keeps its fid, a Tclunk and a Tremove take their fid
\* out, and every other request (a failed walk, a failed attach) leaves the
\* set as it was.
C2_FidAccounting ==
    [][Turn =>
       LET m == message'
           r == reply'
           live == DOMAIN qids
       IN  DOMAIN qids' =
             CASE m.code = Tattach_code /\ r.code = Rattach_code -> live \cup {m.fid}
               [] m.code = Twalk_code /\ r.code = Rwalk_code
                    /\ r.nwqid = m.nwname -> live \cup {m.newfid}
               [] m.code \in {Tclunk_code, Tremove_code} -> live \ {m.fid}
               [] OTHER -> live]_vars

\* C3: Tremove on a bound fid always releases it.  The reply is Rremove when
\* the object was removed and an Rerror carrying the store's error string
\* when it was not, and in both cases the fid is in none of the store's tables
\* afterwards.
C3_RemoveReleases ==
    [][(/\ Turn
        /\ message'.code = Tremove_code
        /\ Bound(message'.fid))
       => /\ reply'.code \in {Rremove_code, Rerror_code}
          /\ reply'.code = Rremove_code =>
                 real_path(paths[message'.fid]) \notin DOMAIN tree'
          /\ reply'.code = Rerror_code =>
                 /\ reply'.ename \in {DictRemoveError, OSErrorString}
                 /\ tree' = tree
          /\ Released(message'.fid)]_vars

\* A Tremove that failed has just been answered, and its fid is released.
C3_Witness ==
    /\ pc = "loop"
    /\ message.code = Tremove_code
    /\ reply.code = Rerror_code
    /\ reply.ename \in {DictRemoveError, OSErrorString}
    /\ message.fid \notin DOMAIN qids
    /\ DOMAIN qids # {}

\* C4: only an opened fid is used for I/O.  Whenever a Tread or Twrite has
\* been answered with Rread or Rwrite, its fid is open.
C4_OnlyOpenedIO ==
    (/\ pc = "loop"
     /\ message.code \in {Tread_code, Twrite_code}
     /\ reply.code \in {Rread_code, Rwrite_code})
    => message.fid \in DOMAIN opened

\* C5: a connection must bind a fid before using it.  A request naming a fid
\* (other than the Tattach that binds it) is answered with success only if
\* the fid was bound by a Tattach or Twalk of the same connection and not
\* released since.
C5_OwnFidsOnly ==
    [][(/\ Turn
        /\ message'.code \in {Tstat_code, Twalk_code, Topen_code, Tcreate_code,
                              Tread_code, Twrite_code, Tclunk_code, Tremove_code}
        /\ reply'.code \notin {0, Rerror_code})
       => message'.fid \in session_fids]_vars

\* C6: Tclunk on a bound fid releases it unconditionally and is answered
\* with Rclunk; when the fid is the root fid the client is dropped, the
\* Rclunk is still encoded, and the loop then leaves for accept without
\* decoding another request of the connection.
C6_ClunkReleases ==
    [][/\ (/\ Turn
           /\ message'.code = Tclunk_code
           /\ Bound(message'.fid))
          => /\ reply' = Rclunk(message'.tag)
             /\ pc' = "loop"
             /\ Released(message'.fid)
             /\ message'.fid = root_fid => client \notin clients'
             /\ message'.fid # root_fid => clients' = clients
       /\ (pc = "loop" /\ client \notin clients) => pc' = "accept"
       /\ (pc = "accept") => (pc' = "loop" /\ client' # client)]_vars

\* The Rclunk of a clunk of the root fid has just been encoded and the client
\* is no longer served.
C6_Witness ==
    /\ pc = "loop"
    /\ message.code = Tclunk_code
    /\ reply.code = Rclunk_code
    /\ message.fid = root_fid
    /\ client \notin clients
    /\ message.fid \notin DOMAIN qids

\* C7: every reply carries the tag of the request it answers.
C7_TagEchoed == reply # NoReply => (message # NoMessage /\ reply.tag = message.tag)

\* Replies of several kinds, errors among them, have been sent under the
\* non-zero tag.
C7_Witness ==
    /\ pc = "loop"
    /\ message.code \in {Tversion_code, Twalk_code, Rclunk_code}
    /\ message.tag = MaxTag
    /\ reply.code \in {Rversion_code, Rerror_code, Rwalk_code}
    /\ reply.tag = MaxTag

\* C8: every request that is decoded is answered: after a turn for a message
\* of a known type the loop goes on with a reply encoded, whatever happened
\* in the handler.
C8_EveryRequestAnswered ==
    message.code \in MessageTypes => (pc = "loop" /\ reply # NoReply)

\* C9: a message whose type is not a known variant is answered with Rerror
\* "Unsupported message." under its tag, and the loop goes on.
C9_UnknownAnswered ==
    (message # NoMessage /\ message.code \notin MessageTypes)
    => (pc = "loop" /\ reply = Rerror(message.tag, "Unsupported message."))

\* C10: a Tattach whose afid is not NOFID is answered with Rerror and binds
\* no fid.
C10_AfidRefused ==
    [][(/\ Turn
        /\ message'.code = Tattach_code
        /\ message'.afid # NOFID)
       => /\ reply'.code = Rerror_code
          /\ qids' = qids
          /\ paths' = paths]_vars

\* C11: Tversion resets the session.  After a Tversion is handled no fid is
\* bound and none is open.
C11_VersionResets ==
    [][(Turn /\ message'.code = Tversion_code)
       => (qids' = EmptyDict /\ paths' = EmptyDict /\ opened' = EmptyDict)]_vars

\* C12: the reply to Tversion{msize, version} is an Rversion under the same
\* tag whose version is "9P2000" and whose msize is the smaller of the
\* client's msize and the server's maximum, so never above the client's.
C12_VersionReply ==
    (pc = "loop" /\ message.code = Tversion_code)
    => /\ reply.code = Rversion_code
       /\ reply.tag = message.tag
       /\ reply.version = "9P2000"
       /\ reply.msize <= message.msize

\* C13: a Topen on a fid that is already open is answered with Rerror and
\* leaves the recorded open modes as they were.
C13_OpenOnce ==
    [][(/\ Turn
        /\ message'.code = Topen_code
        /\ message'.fid \in DOMAIN opened)
       => (reply'.code = Rerror_code /\ opened' = opened)]_vars

\* C14: a Tflush is answered with Rflush under its tag and the loop goes on.
C14_FlushAnswered ==
    message.code = Tflush_code
    => (pc = "loop" /\ reply = Rflush(message.tag))

\* C15: the session loop ends on EOF.  Once the peer has closed the
\* connection, serve eventually is back in accept.
C15_EofEndsLoop == (pc = "recv") ~> (pc = "accept")

\* C16: send(msg) returns, or raises ClientError for, only a reply whose tag
\* is msg.tag.
C16_SendMatchesTag ==
    result.kind \in {"reply", "ClientError"} => result.reply.tag = sent[1].tag

\* C17: every call of _next_fid returns the smallest non-negative integer
\* that is not in self.fids at the call.
C17_NextFidSmallestFree ==
    result.kind # "new" =>
        \A i \in 1 .. Len(result.alloc) :
            result.alloc[i].next_fid = first_free(result.alloc[i].fids, 0)

\* C18: a client call that ends in ClientError leaves no fid it allocated in
\* self.fids and none bound on the server: both sets are as before the call.
C18_FailureReleases ==
    [][result'.kind = "ClientError"
         => (self'.fids = self.fids /\ DOMAIN qids' = DOMAIN qids)]_vars

\* C19: connect sends Tversion and then Tattach with fid 0 and afid NOFID,
\* and leaves root_fid = current_fid = 0 and fids = {0}.
C19_Connect ==
    (result.kind = "returned" /\ result.op = "connect") =>
        /\ Len(sent) = 2
        /\ sent[1].code = Tversion_code
        /\ sent[2].code = Tattach_code
        /\ sent[2].fid = 0
        /\ sent[2].afid = NOFID
        /\ self.root_fid = 0
        /\ self.current_fid = 0
        /\ self.fids = {0}

\* A decoded object has the variant, the tag and every field of msg.
same_fields(obj, fields) ==
    /\ DOMAIN fields \subseteq DOMAIN obj
    /\ \A name \in DOMAIN fields :
           IF name = "stat"
           THEN /\ DOMAIN fields.stat \subseteq DOMAIN obj.stat
                /\ \A f \in DOMAIN fields.stat : obj.stat[f] = fields.stat[f]
           ELSE obj[name] = fields[name]

RoundTrip ==
    /\ codec.out.exc = "none"
    /\ same_fields(codec.out.value, codec.msg)

\* The variants styx.py has a class for come back from decode as they were
\* encoded.
RoundTripOfMessageTypes ==
    (codec.phase = "decoded" /\ codec.msg.code \in MessageTypes) => RoundTrip

\* C20: for every message variant of the inventory, decoding the bytes of
\* the encoded message gives a message of the same variant with the same
\* tag and field values.
C20_RoundTrip == codec.phase = "decoded" => RoundTrip

\* C21: the encoding of a message begins with the little-endian 32-bit
\* number of all the bytes emitted for it, the four size bytes included.
C21_Framing ==
    codec.phase # "new" =>
        /\ Len(codec.data) >= 4
        /\ Int32(unpack_I(SubSeq(codec.data, 1, 4))) = Len(codec.data)

\* Messages with a tail of variable length have been encoded.
C21_Witness ==
    /\ codec.phase = "encoded"
    /\ codec.msg.code = Twalk_code
    /\ Len(codec.msg.wname) = 2
    /\ Len(codec.data) > 17

\* C22: in an encoded Rstat the 16-bit size of the stat[n] wrapper and the
\* 16-bit size field of the stat record differ by exactly 2, and the inner
\* size counts all the fields of the stat but the size field itself.
C22_StatWrapping ==
    (codec.phase # "new" /\ codec.msg.code = Rstat_code) =>
        /\ unpack_H(SubSeq(codec.data, 8, 9))
               = unpack_H(SubSeq(codec.data, 10, 11)) + 2
        /\ unpack_H(SubSeq(codec.data, 10, 11)) = Len(codec.data) - 11

\* An Rstat whose stat has a name of several bytes has been encoded.
C22_Witness ==
    /\ codec.phase = "encoded"
    /\ codec.msg.code = Rstat_code
    /\ Len(codec.msg.stat.name) = 2

\* The fid is bound to a path that names a directory.
DirFid(fid) ==
    /\ fid \in DOMAIN paths
    /\ real_path(paths[fid]) \in DOMAIN tree
    /\ tree[real_path(paths[fid])] = "dir"

\* The names of the entries of the directory at key, in lexicographic order.
InOrder(key) ==
    LET names == {k[Len(k)] : k \in Children(tree, key)}
    IN  CHOOSE s \in [1 .. Cardinality(names) -> names] :
            \A i, j \in DOMAIN s :
                i < j => unicode_less(unicode(s[i]), unicode(s[j]))

\* The stat encodings of the entries of the directory of fid, one after the
\* other in lexicographic order of name.
Listing(fid) ==
    read_files(Store, paths[fid], real_path(paths[fid]),
               InOrder(real_path(paths[fid])))

\* data is the bytes [offset, offset + count) of all.
IsSlice(data, all, offset, count) ==
    /\ Len(data) = (IF offset >= Len(all) THEN 0
                    ELSE IF Len(all) - offset < count THEN Len(all) - offset
                    ELSE count)
    /\ \A i \in 1 .. Len(data) : data[i] = all[offset + i]

\* C23: a read of a directory fid returns the slice [offset, offset + count)
\* of the concatenated stat encodings of its entries taken in lexicographic
\* order of name; with offset the size of that concatenation it returns no
\* bytes.
C23_DirectoryRead ==
    [][(Turn /\ message'.code = Tread_code /\ DirFid(message'.fid)) =>
          /\ reply'.code = Rread_code
          /\ IsSlice(reply'.data.string, Listing(message'.fid),
                     message'.offset, message'.count)
          /\ message'.offset = Len(Listing(message'.fid)) =>
                 reply'.data.string = <<>>]_vars

\* A read of a directory of two entries was answered with bytes of both.
C23_Witness ==
    /\ pc = "loop"
    /\ message.code = Tread_code
    /\ reply.code = Rread_code
    /\ tree[reply.data.of] = "dir"
    /\ Cardinality(Children(tree, reply.data.of)) = 2
    /\ message.offset = 66
    /\ Len(reply.data.string) = 10

\* C24: a Twrite to a store that does not accept writes (its write returns
\* -2, as DictStore.write always does) is answered with Rerror whose ename
\* is "Read only.", and never with Rwrite.
C24_ReadOnly ==
    [][(Turn /\ message'.code = Twrite_code /\ store_class = "DictStore") =>
          /\ reply'.code = Rerror_code
          /\ reply'.ename = "Read only."]_vars

\* C25: only an un-opened fid may be the source of a walk: a Twalk whose
\* source fid is open is answered with Rerror and binds nothing.
C25_WalkFromUnopened ==
    [][(Turn /\ message'.code = Twalk_code /\ message'.fid \in DOMAIN opened) =>
          /\ reply'.code = Rerror_code
          /\ qids' = qids
          /\ paths' = paths]_vars

\* C26: a fid never refers to two different files across its life: from the
\* request that binds it to the Tclunk or Tremove that releases it, the qid
\* recorded for the fid stays that of the same file.
C26_FidIdentity ==
    [][\A fid \in DOMAIN qids \cap DOMAIN qids' : qids'[fid] = qids[fid]]_vars

RECURSIVE Walked(_, _)
Walked(path, names) ==
    IF names = <<>> THEN path
    ELSE Walked(IF Head(names) = ".."
                THEN (IF path = <<>> THEN path ELSE Front(path))
                ELSE Append(path, Head(names)),
                Tail(names))

\* Every name of the walk arrives at an object of the tree.
Resolves(path, names) ==
    \A i \in 1..Len(names) : Walked(path, SubSeq(names, 1, i)) \in DOMAIN tree

QidOf(key) == <<IF tree[key] = "dir" THEN 128 ELSE 0, 0, key>>

\* C28: a Twalk whose names all resolve binds newfid to the path obtained
\* from the path of fid by applying the names in order and to the qid of
\* that path, and replies Rwalk with one qid per name; a Twalk whose first
\* name does not resolve replies Rerror "Not found.".
C28_WalkResolution ==
    [][(/\ Turn
        /\ message'.code = Twalk_code
        /\ message'.wname # <<>>
        /\ message'.fid \in DOMAIN qids \cap DOMAIN paths) =>
          LET names == message'.wname
              from == real_path(paths[message'.fid])
          IN  /\ Resolves(from, names) =>
                     /\ reply'.code = Rwalk_code
                     /\ reply'.nwqid = Len(names)
                     /\ message'.newfid \in DOMAIN qids' \cap DOMAIN paths'
                     /\ paths'[message'.newfid] = join(Walked(from, names))
                     /\ qids'[message'.newfid] = QidOf(Walked(from, names))
              /\ ~Resolves(from, <<names[1]>>) =>
                     /\ reply'.code = Rerror_code
                     /\ reply'.ename = "Not found."]_vars

\* C29: after a Tcreate answered with Rcreate the fid is bound to the new
\* object: its path is the path of the directory with the name appended,
\* its qid is the qid of that object, which is the qid of the Rcreate, and
\* the fid is open with the mode of the request.
C29_CreateRebinds ==
    [][(/\ Turn
        /\ message'.code = Tcreate_code
        /\ reply'.code = Rcreate_code) =>
          LET fid == message'.fid
              new == Append(real_path(paths[fid]), message'.name)
          IN  /\ fid \in DOMAIN qids' \cap DOMAIN paths'
              /\ paths'[fid] = new
              /\ new \in DOMAIN tree' \ DOMAIN tree
              /\ qids'[fid] = <<IF tree'[new] = "dir" THEN 128 ELSE 0, 0, new>>
              /\ reply'.qid = qids'[fid]
              /\ fid \in DOMAIN opened'
              /\ opened'[fid] = message'.mode]_vars

\* A file was created in a directory below the root.
C29_Witness ==
    /\ pc = "loop"
    /\ message.code = Tcreate_code
    /\ reply.code = Rcreate_code
    /\ message.fid \in DOMAIN paths \cap DOMAIN opened
    /\ Len(paths[message.fid]) = 2
    /\ tree[paths[message.fid]] = "file"
    /\ opened[message.fid] = 1

Written(msg) == store_write(Store, msg.fid, msg.offset, msg.count)

\* C31: the reply to a Twrite is Rwrite with the count only when the count
\* the store returned is len(data); a count of -1 gives Rerror "Not a
\* file.", any other count that differs from len(data) gives an Rerror.
C31_WriteMapping ==
    [][(/\ Turn
        /\ message'.code = Twrite_code
        /\ Written(message').exc = "none") =>
          /\ reply'.code \in {Rwrite_code, Rerror_code}
          /\ reply'.code = Rwrite_code =>
                 /\ Written(message').value = message'.count
                 /\ reply'.count = message'.count
          /\ Written(message').value = -1 =>
                 /\ reply'.code = Rerror_code
                 /\ reply'.ename = "Not a file."
          /\ Written(message').value # message'.count =>
                 reply'.code = Rerror_code]_vars

\* A Twrite to a fid of a directory of the host was answered "Not a file.".
C31_Witness ==
    /\ pc = "loop"
    /\ store_class = "FileStore"
    /\ message.code = Twrite_code
    /\ reply.code = Rerror_code
    /\ reply.ename = "Not a file."
    /\ DirFid(message.fid)

Skews == {-1, 0, 2}

RECURSIVE padding(_)
padding(n) == IF n <= 0 THEN <<>> ELSE <<0>> \o padding(n - 1)

\* The frame of msg declaring skew bytes more than its fields take, filled
\* up to the size declared when that is more.
framed(msg, skew) ==
    pack_I(U32(Len(encode(msg)) + skew))
        \o SubSeq(encode(msg), 5, Len(encode(msg))) \o padding(skew)

\* A peer writes such a frame, and an Rclunk after it.
Frame ==
    \E msg \in Messages, skew \in Skews :
        /\ codec' = [data |-> framed(msg, skew) \o encode(Rclunk(0)),
                     msg |-> msg, phase |-> "framed"]
        /\ UNCHANGED <<server_vars, client_vars>>

\* styx.decode on the stream that starts with the frame.
FrameDecode ==
    /\ codec.phase = "framed"
    /\ codec' = [data |-> codec.data, msg |-> codec.msg, phase |-> "read",
                 out |-> decode(codec.data)]
    /\ UNCHANGED <<server_vars, client_vars>>

FrameNext == Frame \/ FrameDecode

FrameSpec == CodecInit /\ [][FrameNext]_vars

\* C33: a decode call that returns a message has read exactly the size
\* bytes its frame declares, so the stream is at the next message.
C33_OneFramePerDecode ==
    (codec.phase = "read" /\ codec.out.exc = "none") =>
        codec.out.stream.ptr = Int32(unpack_I(SubSeq(codec.data, 1, 4)))

\* The requests of a walk that started at the fid start: Twalks of at most
\* MAXWELEM names, the first from start and each other one from the newfid
\* of the Twalk before it, that newfid clunked afterwards, and no Tclunk of
\* start, of the root fid or of the newfid of the last Twalk.
WalkRequests(s, start, root) ==
    LET walks == {i \in 1 .. Len(s) : s[i].code = Twalk_code}
        last == CHOOSE i \in walks : \A j \in walks : j <= i
    IN  /\ walks # {}
        /\ \A i \in 1 .. Len(s) : s[i].code \in {Twalk_code, Tclunk_code}
        /\ s[1].code = Twalk_code
        /\ s[1].fid = start
        /\ \A i \in walks : Len(s[i].wname) <= MAXWELEM
        /\ \A i \in walks \ {last} :
               /\ s[i + 1].code = Twalk_code
               /\ s[i + 1].fid = s[i].newfid
               /\ \E c \in i + 2 .. Len(s) :
                      s[c].code = Tclunk_code /\ s[c].fid = s[i].newfid
        /\ \A c \in 1 .. Len(s) :
               s[c].code = Tclunk_code =>
                   s[c].fid \notin {start, root, s[last].newfid}

\* The call of open that ends now got through _walk and Topen.
Walked_open ==
    /\ result'.kind = "AttributeError"
    /\ result'.op = "open"
    /\ sent' # <<>>
    /\ sent'[Len(sent')].code = Topen_code

\* C34: _walk sends no Twalk of more than 16 names, walks a longer path by
\* Twalks that each start at the newfid of the one before, clunks each
\* intermediate fid and neither the fid it started from nor the root fid,
\* and returns the newfid of its last Twalk: one more fid is in use by the
\* client and bound in its session after it.
C34_WalkChunks ==
    [][Walked_open =>
          LET fid == sent'[Len(sent')].fid
          IN  /\ WalkRequests(Front(sent'), self.current_fid, self.root_fid)
              /\ \E i \in 1 .. Len(sent') - 1 :
                     /\ sent'[i].code = Twalk_code
                     /\ sent'[i].newfid = fid
                     /\ \A j \in i + 1 .. Len(sent') - 1 :
                            sent'[j].code # Twalk_code
              /\ fid \notin self.fids
              /\ self'.fids = self.fids \cup {fid}
              /\ fid \notin session_fids
              /\ session_fids' = session_fids \cup {fid}]_vars

\* open walked a path of 17 names: two Twalks, a Tclunk and the Topen.
C34_Witness ==
    /\ result.kind = "AttributeError"
    /\ result.op = "open"
    /\ Len(sent) = 4
    /\ sent[1].code = Twalk_code
    /\ Len(sent[1].wname) = MAXWELEM
    /\ sent[2].code = Twalk_code
    /\ sent[3].code = Tclunk_code
    /\ sent[4].code = Topen_code

\* C35: in every reachable state the fids with a qid are the fids with a
\* path, and no fid has the None that make_qid returns for a missing path
\* as its qid.
C35_FidsValid ==
    /\ DOMAIN qids = DOMAIN paths
    /\ \A fid \in DOMAIN qids : qids[fid] # NoneQid

\* C36: in every reachable state every fid with an open mode is a fid with
\* a qid and a path.
C36_OpenedBound ==
    DOMAIN opened \subseteq DOMAIN qids \cap DOMAIN paths

\* A fid was clunked while another fid is open.
C36_Witness ==
    /\ pc = "loop"
    /\ message.code = Tclunk_code
    /\ reply.code = Rclunk_code
    /\ message.fid \notin DOMAIN qids
    /\ DOMAIN opened # {}

\* C37: the fid that a Tattach answered with Rattach, or a Twalk answered
\* with a qid for every name, has just bound (the newfid of the Twalk) has
\* no open mode.
C37_FreshFidUnopened ==
    [][Turn =>
          /\ (message'.code = Tattach_code /\ reply'.code = Rattach_code) =>
                 message'.fid \notin DOMAIN opened'
          /\ (/\ message'.code = Twalk_code
              /\ reply'.code = Rwalk_code
              /\ reply'.nwqid = message'.nwname) =>
                 message'.newfid \notin DOMAIN opened']_vars

\* C38: a request other than Tremove that is answered with Rerror leaves
\* the qids, the paths and the open modes of the fids as they were.
C38_ErrorKeepsState ==
    [][(/\ Turn
        /\ message'.code # Tremove_code
        /\ reply'.code = Rerror_code) =>
          /\ qids' = qids
          /\ paths' = paths
          /\ opened' = opened]_vars

(***************************************************************************)
(* A connection that attaches, walks and opens with three fids.            *)
(***************************************************************************)
WideFids == 0 .. MaxFid + 1

ServeWide ==
    \E fid \in WideFids, newfid \in WideFids, wname \in Wnames :
        \/ Serve(Tattach(0, fid, NOFID, "inferno", ""), TRUE)
        \/ Serve(Twalk(0, fid, newfid, wname), TRUE)
        \/ Serve(Topen(0, fid, 0), TRUE)

WideNext == Accept \/ Loop \/ ServeWide

WideSpec == Init /\ [][WideNext]_vars

\* The entry of fid in the three tables is after the step what it was.
EntryKept(fid) ==
    /\ fid \in DOMAIN qids' <=> fid \in DOMAIN qids
    /\ fid \in DOMAIN qids => qids'[fid] = qids[fid]
    /\ fid \in DOMAIN paths' <=> fid \in DOMAIN paths
    /\ fid \in DOMAIN paths => paths'[fid] = paths[fid]
    /\ fid \in DOMAIN opened' <=> fid \in DOMAIN opened
    /\ fid \in DOMAIN opened => opened'[fid] = opened[fid]

\* C39: a Twalk answered with Rwalk whose newfid is not its fid leaves the
\* qid, the path and the open mode of fid, and the entry of every fid other
\* than newfid, as they were.
C39_WalkFrame ==
    [][(/\ Turn
        /\ message'.code = Twalk_code
        /\ reply'.code = Rwalk_code
        /\ message'.newfid # message'.fid) =>
          \A fid \in (DOMAIN qids \cup DOMAIN qids' \cup DOMAIN opened
                          \cup DOMAIN opened') \ {message'.newfid} :
              EntryKept(fid)]_vars

\* A walk bound newfid while its fid and a third fid were open.
C39_Witness ==
    /\ pc = "loop"
    /\ message.code = Twalk_code
    /\ reply.code = Rwalk_code
    /\ reply.nwqid = 1
    /\ message.newfid # message.fid
    /\ message.fid \in DOMAIN opened
    /\ DOMAIN opened \ {message.fid, message.newfid} # {}
    /\ paths[message.newfid] # paths[message.fid]

\* C40: after a call of ls, cd, mkdir, create, open or read that returned
\* or raised ClientError, self.fids is the set of the fids bound in the
\* session on the server, and current_fid is in it.
C40_FidAgreement ==
    (/\ result.kind \in {"returned", "ClientError"}
     /\ result.op \in {"ls", "cd", "mkdir", "create", "open", "read"}) =>
        /\ self.fids = session_fids
        /\ self.current_fid \in self.fids
        /\ self.current_fid \in session_fids

====
